---- MODULE Spec2Model ----
(***************************************************************************)
(* Simulation core of the bomb-placement arena game                        *)
(* (src/components/GameEngine.tsx, src/constants.ts).                      *)
(*                                                                         *)
(* GameEngine.tsx holds two definitions of the component: the first        *)
(* (lines 1-476, touch controls, speed 4, four enemies, uncapped spawn     *)
(* loop) and the second (lines 477-947, keyboard only, speed 3.5, three    *)
(* enemies, spawn loop capped at 100 attempts).  The variable `variant`    *)
(* says which of the two is running; it is fixed for a whole behaviour.    *)
(*                                                                         *)
(* JavaScript numbers that hold pixel coordinates are modelled as          *)
(* integers counting 1/Scale pixel, so that the 0.01 px epsilon of         *)
(* isCollision and the 3.5 px speed are exact.  Only the normalised        *)
(* diagonal step (speed / sqrt 2) is rounded to that resolution.           *)
(*                                                                         *)
(* React state: `gameStatus` is the committed value.  update() reads the   *)
(* value captured by the closure of the render in which the frame loop     *)
(* was (re)started, which the effect keyed on [gameStatus] keeps equal to  *)
(* the committed value between frames; every setGameStatus call made       *)
(* during one frame is queued and the last one wins.                       *)
(***************************************************************************)
EXTENDS Integers, Sequences, FiniteSets, TLC

VARIABLES
  variant,        \* 1 or 2: which definition of GameEngine runs
  gameStatus,     \* useState<GameStatus>
  mapRef,         \* TileType[][]: row r, column c is mapRef[r + 1][c + 1]
  playerRef,      \* Player
  bombsRef,       \* Bomb[]
  explosionsRef,  \* Explosion[]
  enemiesRef,     \* Enemy[]
  inputsRef,      \* inputsRef / keysPressed: the five action flags
  log,            \* what the last handler did (history, for stating claims)
  budget          \* what the environment may still do (see Scenarios)

vars == <<variant, gameStatus, mapRef, playerRef, bombsRef, explosionsRef,
          enemiesRef, inputsRef, log, budget>>

-----------------------------------------------------------------------------
(* Program constants *)

TILE_SIZE == 48
GRID_ROWS == 15
GRID_COLS == 15
BOMB_TIMER_MS == 3000
EXPLOSION_DURATION_MS == 600
HITBOX_SIZE == 30
SNAP_THRESHOLD == 20
MAX_BOMBS == 3
BLAST_RADIUS == 2
ENEMY_SPEED == 2
MAX_ATTEMPTS == 100

\* Resolution of pixel coordinates: 1/Scale px (0.01 px is one unit).
Scale == 100

Empty == "Empty"
HardWall == "HardWall"
SoftWall == "SoftWall"
TileType == {Empty, HardWall, SoftWall}

Menu == "Menu"
Playing == "Playing"
Won == "Won"
Lost == "Lost"
GameStatus == {Menu, Playing, Won, Lost}

Keys == {"ArrowUp", "ArrowDown", "ArrowLeft", "ArrowRight", "Space"}

-----------------------------------------------------------------------------
(* Bounds of the model *)

\* initGame calls in one behaviour.
MaxRounds == 2
\* Direction flag changes (arrow key or d-pad events) in one behaviour.
MaxArrowEvents == 1
\* Space flag changes (key or button events) in one behaviour.
MaxSpaceEvents == 2
\* Frames with a positive elapsed time in one behaviour (in every other
\* frame dt is 0).
MaxTimedFrames == 2
\* Ticks in which an enemy's random draw yields a new direction.
MaxDirChanges == 1
\* Space flag changes in a behaviour in which no time elapses.
BurstSpaceEvents == 4

\* What the environment does in one behaviour, as the numbers of events it
\* may still produce: a game with bombs that go off, a burst of bomb
\* placements while no time elapses, and enemies that wander about an idle
\* player.
Scenarios ==
  { [rounds |-> MaxRounds, arrows |-> MaxArrowEvents, spaces |-> MaxSpaceEvents,
     timed |-> MaxTimedFrames, turns |-> 0],
    [rounds |-> 1, arrows |-> MaxArrowEvents, spaces |-> BurstSpaceEvents,
     timed |-> 0, turns |-> 0],
    [rounds |-> 1, arrows |-> 0, spaces |-> 0,
     timed |-> 0, turns |-> MaxDirChanges] }

\* Direction flag changes and Space flag changes in a behaviour of SpecMove,
\* in which no time elapses.
MaxMoveArrowEvents == 2
MaxMoveSpaceEvents == 1

\* Steps off the spawn point, on either axis, of a player that SpecMove
\* finds near the corner of the spawn cell.
MaxCornerSteps == 14

\* What the environment does in one behaviour of SpecMove: a player who
\* walks about the open cells around the spawn and lays a bomb there, and a
\* player who lays a bomb at the spawn while an enemy turns towards it.
MoveScenarios ==
  { [rounds |-> 1, arrows |-> MaxMoveArrowEvents, spaces |-> MaxMoveSpaceEvents,
     timed |-> 0, turns |-> 0],
    [rounds |-> 1, arrows |-> 0, spaces |-> MaxMoveSpaceEvents,
     timed |-> 0, turns |-> MaxDirChanges] }

\* Bombs lying on the grid when the detonations of SpecBlast start.
MaxBlastBombs == 2

\* Elapsed times handed to update(), in ms.
DtSet == {0, 500, 2500}

\* Successful draws the capped spawn loop may end short of its target.
Shortfalls == {0, 3}

\* Outcomes of the Math.random() < 0.3 draws of initGame: the cells that
\* become SoftWall (every other free cell is Empty).
SoftLayouts ==
  { {<<1, 6>>, <<2, 3>>, <<2, 5>>, <<3, 1>>, <<4, 1>>} }

\* Soft-wall outcomes and bomb cells for the detonations of SpecBlast.
BlastLayouts ==
  { {<<1, 6>>, <<2, 3>>, <<3, 5>>, <<4, 3>>, <<5, 3>>},
    {<<1, 6>>} }
BlastCells == {<<1, 1>>, <<1, 3>>, <<3, 2>>, <<3, 3>>, <<3, 4>>}

\* Soft-wall outcomes for SpecMove: walls that close the two lanes of the
\* spawn corner after two cells.
RoamLayouts ==
  { {<<1, 3>>, <<1, 6>>, <<3, 1>>} }

\* Cells whose Math.random() < 0.3 draw may come out either way in the grids
\* of SpecGrid (the draw of every other cell is >= 0.3).
GridDraws ==
  {<<1, 1>>, <<1, 2>>, <<2, 1>>, <<1, 3>>, <<3, 1>>, <<3, 3>>, <<0, 5>>, <<4, 4>>,
   <<1, 7>>, <<5, 1>>, <<13, 13>>}

\* Cells the random enemy placement may draw (a subset of the 13 x 13 it
\* draws from).
SpawnCells == {<<1, 5>>}

-----------------------------------------------------------------------------
(* Helpers *)

T == TILE_SIZE * Scale
\* The 0.01 px that isCollision takes off the far edge of a rectangle.
EPS == Scale \div 100

Abs(n) == IF n < 0 THEN -n ELSE n
Sgn(n) == IF n < 0 THEN -1 ELSE IF n > 0 THEN 1 ELSE 0
RoundDiv(a, b) == (2 * a + b) \div (2 * b)

\* The n in lo..hi nearest to the square root of q/4 (by bisection).
RECURSIVE nearestRoot(_, _, _)
nearestRoot(q, lo, hi) ==
  IF lo >= hi THEN lo
  ELSE IF (2 * ((lo + hi) \div 2) + 1) * (2 * ((lo + hi) \div 2) + 1) > q
       THEN nearestRoot(q, lo, (lo + hi) \div 2)
       ELSE nearestRoot(q, (lo + hi) \div 2 + 1, hi)

\* Math.hypot for the two components of a diagonal move, to the nearest unit.
Hypot(a, b) == nearestRoot(4 * (a * a + b * b), 0, Abs(a) + Abs(b))

rectIntersect(r1, r2) ==
  ~(r2.x >= r1.x + r1.w \/ r2.x + r2.w <= r1.x \/
    r2.y >= r1.y + r1.h \/ r2.y + r2.h <= r1.y)

getGridPos(x, y) == [c |-> x \div T, r |-> y \div T]

Cells == (0..(GRID_ROWS - 1)) \X (0..(GRID_COLS - 1))

\* mapRef.current[r][c] (rows and columns count from 0 in the source).
tileAt(map, r, c) == map[r + 1][c + 1]

PlayerSpeed(v) == IF v = 1 THEN 4 * Scale ELSE (7 * Scale) \div 2
EnemyCount(v) == IF v = 1 THEN 4 ELSE 3

isSafeZone(v, r, c) ==
  IF v = 1 THEN r < 3 /\ c < 3
  ELSE (r = 1 /\ c = 1) \/ (r = 1 /\ c = 2) \/ (r = 2 /\ c = 1)

\* newMap without the safe zone: every free cell may draw a SoftWall.
newMapNoSafeZone(v, soft) ==
  [r1 \in 1..GRID_ROWS |-> [c1 \in 1..GRID_COLS |->
     LET r == r1 - 1
         c == c1 - 1
     IN IF r = 0 \/ r = GRID_ROWS - 1 \/ c = 0 \/ c = GRID_COLS - 1
           \/ (r % 2 = 0 /\ c % 2 = 0)
        THEN HardWall
        ELSE IF <<r, c>> \in soft THEN SoftWall ELSE Empty]]

\* The grid initGame builds when `soft` are the cells whose draw is < 0.3.
newMap(v, soft) ==
  [r1 \in 1..GRID_ROWS |-> [c1 \in 1..GRID_COLS |->
     LET r == r1 - 1
         c == c1 - 1
     IN IF r = 0 \/ r = GRID_ROWS - 1 \/ c = 0 \/ c = GRID_COLS - 1
           \/ (r % 2 = 0 /\ c % 2 = 0)
        THEN HardWall
        ELSE IF ~isSafeZone(v, r, c) /\ <<r, c>> \in soft THEN SoftWall ELSE Empty]]

newPlayer(v, x, y) ==
  [x |-> x, y |-> y, width |-> HITBOX_SIZE * Scale, height |-> HITBOX_SIZE * Scale,
   alive |-> TRUE, speed |-> PlayerSpeed(v), bombCount |-> 0,
   maxBombs |-> MAX_BOMBS, blastRadius |-> BLAST_RADIUS]

newEnemy(cell) ==
  [x |-> cell[2] * T + T \div 2, y |-> cell[1] * T + T \div 2,
   width |-> HITBOX_SIZE * Scale, height |-> HITBOX_SIZE * Scale,
   alive |-> TRUE, speed |-> ENEMY_SPEED * Scale,
   direction |-> [x |-> 1, y |-> 0], changeDirTimer |-> 0]

\* Sequences of exactly n elements of S.
SeqsOfLen(S, n) == [1..n -> S]

\* eligibleCells without the test r > 4 || c > 4.
eligibleCellsAnywhere(map) ==
  {p \in Cells : /\ p[1] \in 1..(GRID_ROWS - 2) /\ p[2] \in 1..(GRID_COLS - 2)
                 /\ tileAt(map, p[1], p[2]) = Empty}

\* The cells a draw of the spawn loop succeeds on.
eligibleCells(map) ==
  {p \in Cells : /\ p[1] \in 1..(GRID_ROWS - 2) /\ p[2] \in 1..(GRID_COLS - 2)
                 /\ tileAt(map, p[1], p[2]) = Empty /\ (p[1] > 4 \/ p[2] > 4)}

\* The enemy collections the spawn loop of initGame can end with.  A draw
\* succeeds on a cell that is Empty with r > 4 or c > 4.  The first
\* definition loops until four draws succeeded; the second stops after
\* MAX_ATTEMPTS draws, so it can end with fewer than three (cell (1,1) is
\* never eligible, so a draw can always fail).  On a grid without an
\* eligible cell no draw of the first definition's loop succeeds and the
\* loop has no end: the set of its outcomes is empty.
spawnEnemies(v, map) ==
  LET eligible == SpawnCells \cap eligibleCells(map)
      counts == IF v = 1 THEN {EnemyCount(v)}
                ELSE {n \in 0..EnemyCount(v) :
                        n <= MAX_ATTEMPTS /\ EnemyCount(v) - n \in Shortfalls}
  IN UNION {{[i \in 1..n |-> newEnemy(s[i])] : s \in SeqsOfLen(eligible, n)} : n \in counts}

-----------------------------------------------------------------------------
(* Physics *)

\* isCollision that skips the cells outside the grid instead of reporting
\* them as blocked.
isCollisionOpenBorder(map, bombs, targetX, targetY, w, h, currentX, currentY) ==
  LET pRect == [x |-> targetX - w \div 2, y |-> targetY - h \div 2, w |-> w, h |-> h]
      curRect == [x |-> currentX - w \div 2, y |-> currentY - h \div 2, w |-> w, h |-> h]
  IN \/ \E r \in (pRect.y \div T)..((pRect.y + pRect.h - EPS) \div T),
            c \in (pRect.x \div T)..((pRect.x + pRect.w - EPS) \div T) :
          /\ r >= 0 /\ r < GRID_ROWS /\ c >= 0 /\ c < GRID_COLS
          /\ tileAt(map, r, c) # Empty
     \/ \E i \in 1..Len(bombs) :
          /\ rectIntersect(pRect, [x |-> bombs[i].x - T \div 2, y |-> bombs[i].y - T \div 2,
                                   w |-> T, h |-> T])
          /\ ~rectIntersect(curRect, [x |-> bombs[i].x - T \div 2,
                                      y |-> bombs[i].y - T \div 2, w |-> T, h |-> T])

\* isCollision in which a bomb blocks also the entity that stands on it.
isCollisionNoExempt(map, bombs, targetX, targetY, w, h, currentX, currentY) ==
  LET pRect == [x |-> targetX - w \div 2, y |-> targetY - h \div 2, w |-> w, h |-> h]
  IN \/ \E r \in (pRect.y \div T)..((pRect.y + pRect.h - EPS) \div T),
            c \in (pRect.x \div T)..((pRect.x + pRect.w - EPS) \div T) :
          \/ r < 0 \/ r >= GRID_ROWS \/ c < 0 \/ c >= GRID_COLS
          \/ tileAt(map, r, c) # Empty
     \/ \E i \in 1..Len(bombs) :
          rectIntersect(pRect, [x |-> bombs[i].x - T \div 2, y |-> bombs[i].y - T \div 2,
                                w |-> T, h |-> T])

\* isCollision that tests the tiles only.
isCollisionNoBombs(map, bombs, targetX, targetY, w, h, currentX, currentY) ==
  LET pRect == [x |-> targetX - w \div 2, y |-> targetY - h \div 2, w |-> w, h |-> h]
  IN \E r \in (pRect.y \div T)..((pRect.y + pRect.h - EPS) \div T),
        c \in (pRect.x \div T)..((pRect.x + pRect.w - EPS) \div T) :
       \/ r < 0 \/ r >= GRID_ROWS \/ c < 0 \/ c >= GRID_COLS
       \/ tileAt(map, r, c) # Empty

isCollision(map, bombs, targetX, targetY, w, h, currentX, currentY) ==
  LET pRect == [x |-> targetX - w \div 2, y |-> targetY - h \div 2, w |-> w, h |-> h]
      curRect == [x |-> currentX - w \div 2, y |-> currentY - h \div 2, w |-> w, h |-> h]
      left == pRect.x \div T
      right == (pRect.x + pRect.w - EPS) \div T
      top == pRect.y \div T
      bottom == (pRect.y + pRect.h - EPS) \div T
  IN \/ \E r \in top..bottom, c \in left..right :
          \/ r < 0 \/ r >= GRID_ROWS \/ c < 0 \/ c >= GRID_COLS
          \/ tileAt(map, r, c) # Empty
     \/ \E i \in 1..Len(bombs) :
          LET b == bombs[i]
              bRect == [x |-> b.x - T \div 2, y |-> b.y - T \div 2, w |-> T, h |-> T]
          IN rectIntersect(pRect, bRect) /\ ~rectIntersect(curRect, bRect)

-----------------------------------------------------------------------------
(* update(): player movement *)

\* The displacement the four direction flags ask for, normalised to the
\* player's speed when both axes are active.
desiredMove(inputs, speed) ==
  LET dy0 == (IF inputs["ArrowUp"] THEN -speed ELSE 0)
             + (IF inputs["ArrowDown"] THEN speed ELSE 0)
      dx0 == (IF inputs["ArrowLeft"] THEN -speed ELSE 0)
             + (IF inputs["ArrowRight"] THEN speed ELSE 0)
  IN IF dx0 # 0 /\ dy0 # 0
     THEN LET len == Hypot(dx0, dy0)
          IN [dx |-> Sgn(dx0) * RoundDiv(Abs(dx0) * speed, len),
              dy |-> Sgn(dy0) * RoundDiv(Abs(dy0) * speed, len)]
     ELSE [dx |-> dx0, dy |-> dy0]

\* The second definition slides only for offset < 0 in its else branch; the
\* first slides for every offset <= 0.
slidesForward(v, offset) == IF v = 1 THEN offset <= 0 ELSE offset < 0

\* moveX that, blocked, puts the player on the lane centreline whatever the
\* offset.
moveXSnapsToLane(v, map, bombs, player, dx) ==
  IF dx = 0 THEN player
  ELSE IF ~isCollision(map, bombs, player.x + dx, player.y, player.width,
                       player.height, player.x, player.y)
       THEN [player EXCEPT !.x = @ + dx]
       ELSE [player EXCEPT !.y = (@ \div T) * T + T \div 2]

\* moveX whose slide is two steps long.
moveXSlidesDouble(v, map, bombs, player, dx) ==
  IF dx = 0 THEN player
  ELSE
    LET nextX == player.x + dx
        blocked(tx, ty) == isCollision(map, bombs, tx, ty, player.width,
                                       player.height, player.x, player.y)
    IN IF ~blocked(nextX, player.y) THEN [player EXCEPT !.x = nextX]
       ELSE
         LET offset == player.y - ((player.y \div T) * T + T \div 2)
         IN IF Abs(offset) < SNAP_THRESHOLD * Scale
            THEN IF offset > 0
                 THEN IF ~blocked(nextX, player.y - player.speed)
                      THEN [player EXCEPT !.y = @ - 2 * player.speed] ELSE player
                 ELSE IF slidesForward(v, offset)
                         /\ ~blocked(nextX, player.y + player.speed)
                      THEN [player EXCEPT !.y = @ + 2 * player.speed] ELSE player
            ELSE player

\* X axis with corner sliding.
moveX(v, map, bombs, player, dx) ==
  IF dx = 0 THEN player
  ELSE
    LET nextX == player.x + dx
        blocked(tx, ty) == isCollision(map, bombs, tx, ty, player.width,
                                       player.height, player.x, player.y)
    IN IF ~blocked(nextX, player.y) THEN [player EXCEPT !.x = nextX]
       ELSE
         LET gridY == player.y \div T
             centerY == gridY * T + T \div 2
             offset == player.y - centerY
         IN IF Abs(offset) < SNAP_THRESHOLD * Scale
            THEN IF offset > 0
                 THEN IF ~blocked(nextX, player.y - player.speed)
                      THEN [player EXCEPT !.y = @ - player.speed] ELSE player
                 ELSE IF slidesForward(v, offset)
                         /\ ~blocked(nextX, player.y + player.speed)
                      THEN [player EXCEPT !.y = @ + player.speed] ELSE player
            ELSE player

\* Y axis with corner sliding.
moveY(v, map, bombs, player, dy) ==
  IF dy = 0 THEN player
  ELSE
    LET nextY == player.y + dy
        blocked(tx, ty) == isCollision(map, bombs, tx, ty, player.width,
                                       player.height, player.x, player.y)
    IN IF ~blocked(player.x, nextY) THEN [player EXCEPT !.y = nextY]
       ELSE
         LET gridX == player.x \div T
             centerX == gridX * T + T \div 2
             offset == player.x - centerX
         IN IF Abs(offset) < SNAP_THRESHOLD * Scale
            THEN IF offset > 0
                 THEN IF ~blocked(player.x - player.speed, nextY)
                      THEN [player EXCEPT !.x = @ - player.speed] ELSE player
                 ELSE IF slidesForward(v, offset)
                         /\ ~blocked(player.x + player.speed, nextY)
                      THEN [player EXCEPT !.x = @ + player.speed] ELSE player
            ELSE player

movePlayer(v, map, bombs, player, inputs) ==
  LET d == desiredMove(inputs, player.speed)
  IN moveY(v, map, bombs, moveX(v, map, bombs, player, d.dx), d.dy)

-----------------------------------------------------------------------------
(* Bombs and explosions *)

\* Why placeBomb added no bomb, or "placed".
placeOutcome(player, bombs) ==
  LET gridPos == getGridPos(player.x, player.y)
  IN IF player.bombCount >= player.maxBombs THEN "full"
     ELSE IF \E i \in 1..Len(bombs) :
               LET bPos == getGridPos(bombs[i].x, bombs[i].y)
               IN bPos.r = gridPos.r /\ bPos.c = gridPos.c
          THEN "occupied"
          ELSE "placed"

\* placeBomb without the test of bombCount against maxBombs.
placeBombNoMax(player, bombs) ==
  LET gridPos == getGridPos(player.x, player.y)
  IN IF \E i \in 1..Len(bombs) : getGridPos(bombs[i].x, bombs[i].y) = gridPos
     THEN [player |-> player, bombs |-> bombs]
     ELSE [player |-> [player EXCEPT !.bombCount = @ + 1],
           bombs |-> Append(bombs, [x |-> gridPos.c * T + T \div 2,
                                    y |-> gridPos.r * T + T \div 2,
                                    timer |-> BOMB_TIMER_MS,
                                    range |-> player.blastRadius, ownerId |-> "player"])]

\* placeBomb without the test for a bomb in the player's cell.
placeBombNoCellCheck(player, bombs) ==
  LET gridPos == getGridPos(player.x, player.y)
  IN IF player.bombCount >= player.maxBombs
     THEN [player |-> player, bombs |-> bombs]
     ELSE [player |-> [player EXCEPT !.bombCount = @ + 1],
           bombs |-> Append(bombs, [x |-> gridPos.c * T + T \div 2,
                                    y |-> gridPos.r * T + T \div 2,
                                    timer |-> BOMB_TIMER_MS,
                                    range |-> player.blastRadius, ownerId |-> "player"])]

\* placeBomb, on the pair [player, bombs].
placeBomb(player, bombs) ==
  LET gridPos == getGridPos(player.x, player.y)
      bombX == gridPos.c * T + T \div 2
      bombY == gridPos.r * T + T \div 2
  IN IF placeOutcome(player, bombs) = "placed"
     THEN [player |-> [player EXCEPT !.bombCount = @ + 1],
           bombs |-> Append(bombs, [x |-> bombX, y |-> bombY, timer |-> BOMB_TIMER_MS,
                                    range |-> player.blastRadius, ownerId |-> "player"])]
     ELSE [player |-> player, bombs |-> bombs]

dirs == <<[dr |-> -1, dc |-> 0], [dr |-> 1, dc |-> 0],
          [dr |-> 0, dc |-> -1], [dr |-> 0, dc |-> 1]>>

\* castRay that clears a SoftWall and goes on.
RECURSIVE castRayNoStop(_, _, _, _, _)
castRayNoStop(acc, center, d, i, range) ==
  IF i > range THEN acc
  ELSE
    LET r == center.r + d.dr * i
        c == center.c + d.dc * i
    IN IF r < 0 \/ r >= GRID_ROWS \/ c < 0 \/ c >= GRID_COLS THEN acc
       ELSE IF tileAt(acc.map, r, c) = HardWall THEN acc
       ELSE castRayNoStop([acc EXCEPT !.particles = Append(@, [x |-> c, y |-> r]),
                                      !.map[r + 1][c + 1] = Empty],
                          center, d, i + 1, range)

\* castRay that stops at a SoftWall and leaves it standing.
RECURSIVE castRayKeepsWall(_, _, _, _, _)
castRayKeepsWall(acc, center, d, i, range) ==
  IF i > range THEN acc
  ELSE
    LET r == center.r + d.dr * i
        c == center.c + d.dc * i
    IN IF r < 0 \/ r >= GRID_ROWS \/ c < 0 \/ c >= GRID_COLS THEN acc
       ELSE IF tileAt(acc.map, r, c) = HardWall THEN acc
       ELSE IF tileAt(acc.map, r, c) = SoftWall
            THEN [acc EXCEPT !.particles = Append(@, [x |-> c, y |-> r])]
            ELSE castRayKeepsWall([acc EXCEPT !.particles = Append(@, [x |-> c, y |-> r])],
                                  center, d, i + 1, range)

\* castRay that treats every wall as destructible.
RECURSIVE castRayBreaksHard(_, _, _, _, _)
castRayBreaksHard(acc, center, d, i, range) ==
  IF i > range THEN acc
  ELSE
    LET r == center.r + d.dr * i
        c == center.c + d.dc * i
    IN IF r < 0 \/ r >= GRID_ROWS \/ c < 0 \/ c >= GRID_COLS THEN acc
       ELSE IF tileAt(acc.map, r, c) # Empty
            THEN [acc EXCEPT !.particles = Append(@, [x |-> c, y |-> r]),
                             !.map[r + 1][c + 1] = Empty]
            ELSE castRayBreaksHard([acc EXCEPT !.particles = Append(@, [x |-> c, y |-> r])],
                                   center, d, i + 1, range)

\* One ray of explodeBomb from step i on; acc = [map, particles].
RECURSIVE castRay(_, _, _, _, _)
castRay(acc, center, d, i, range) ==
  IF i > range THEN acc
  ELSE
    LET r == center.r + d.dr * i
        c == center.c + d.dc * i
    IN IF r < 0 \/ r >= GRID_ROWS \/ c < 0 \/ c >= GRID_COLS THEN acc
       ELSE
         LET tile == tileAt(acc.map, r, c)
         IN IF tile = HardWall THEN acc
            ELSE
              LET acc1 == [acc EXCEPT !.particles = Append(@, [x |-> c, y |-> r])]
              IN IF tile = SoftWall
                 THEN [acc1 EXCEPT !.map[r + 1][c + 1] = Empty]
                 ELSE castRay(acc1, center, d, i + 1, range)

RemoveAt(s, i) == [j \in 1..(Len(s) - 1) |-> IF j < i THEN s[j] ELSE s[j + 1]]

\* explodeBomb that leaves the player's bombCount as it is.
explodeBombKeepsCount(v, w, index) ==
  LET center == getGridPos(w.bombs[index].x, w.bombs[index].y)
      acc == castRay(castRay(castRay(castRay(
               [map |-> w.map, particles |-> <<[x |-> center.c, y |-> center.r]>>],
               center, dirs[1], 1, w.bombs[index].range),
               center, dirs[2], 1, w.bombs[index].range),
               center, dirs[3], 1, w.bombs[index].range),
               center, dirs[4], 1, w.bombs[index].range)
  IN [w EXCEPT !.map = acc.map,
                !.bombs = RemoveAt(@, index),
                !.explosions = Append(@, [timer |-> EXPLOSION_DURATION_MS,
                                          particles |-> acc.particles])]

\* explodeBomb(bomb, index) on the world record (see update); index counts
\* from 1.
explodeBomb(v, w, index) ==
  LET bomb == w.bombs[index]
      center == getGridPos(bomb.x, bomb.y)
      acc0 == [map |-> w.map, particles |-> <<[x |-> center.c, y |-> center.r]>>]
      acc1 == castRay(acc0, center, dirs[1], 1, bomb.range)
      acc2 == castRay(acc1, center, dirs[2], 1, bomb.range)
      acc3 == castRay(acc2, center, dirs[3], 1, bomb.range)
      acc4 == castRay(acc3, center, dirs[4], 1, bomb.range)
  IN [w EXCEPT !.map = acc4.map,
                !.player.bombCount = IF v = 1 \/ bomb.ownerId = "player" THEN @ - 1 ELSE @,
                !.bombs = RemoveAt(@, index),
                !.explosions = Append(@, [timer |-> EXPLOSION_DURATION_MS,
                                          particles |-> acc4.particles])]

\* The bombs loop of update(), from index i down to 1.
RECURSIVE bombsLoop(_, _, _, _)
bombsLoop(v, w, i, dt) ==
  IF i < 1 THEN w
  ELSE IF w.bombs[i].timer - dt <= 0
       THEN bombsLoop(v, explodeBomb(v, [w EXCEPT !.bombs[i].timer = @ - dt], i), i - 1, dt)
       ELSE bombsLoop(v, [w EXCEPT !.bombs[i].timer = @ - dt], i - 1, dt)

\* Whether a particle of one of the explosions is the grid cell of (x, y).
burning(explosions, x, y) ==
  \E i \in 1..Len(explosions) : \E k \in 1..Len(explosions[i].particles) :
    /\ y \div T = explosions[i].particles[k].y
    /\ x \div T = explosions[i].particles[k].x

\* agedExplosions that keeps the explosions whose timer ran out.
agedExplosionsKeepsSpent(explosions, dt) ==
  [i \in 1..Len(explosions) |-> [explosions[i] EXCEPT !.timer = @ - dt]]

\* The explosions of update() after their timers ran: those that stay.
agedExplosions(explosions, dt) ==
  SelectSeq([i \in 1..Len(explosions) |-> [explosions[i] EXCEPT !.timer = @ - dt]],
            LAMBDA e : e.timer > 0)

-----------------------------------------------------------------------------
(* Enemies *)

enemyDirs == <<[x |-> 0, y |-> -1], [x |-> 0, y |-> 1], [x |-> -1, y |-> 0], [x |-> 1, y |-> 0]>>

\* Contact test of one enemy: Math.hypot(...) < TILE_SIZE * 0.7, compared as
\* squares (a component as long as the threshold already decides it).
touches(player, enemy) ==
  /\ Abs(player.x - enemy.x) < (7 * T) \div 10
  /\ Abs(player.y - enemy.y) < (7 * T) \div 10
  /\ (player.x - enemy.x) * (player.x - enemy.x)
     + (player.y - enemy.y) * (player.y - enemy.y) < ((7 * T) \div 10) * ((7 * T) \div 10)

\* enemyStep in which a blocked enemy steps back.
enemyStepBounces(map, bombs, enemy, drawn) ==
  IF isCollision(map, bombs, enemy.x + enemy.direction.x * enemy.speed,
                 enemy.y + enemy.direction.y * enemy.speed,
                 enemy.width, enemy.height, enemy.x, enemy.y)
  THEN [enemy EXCEPT !.x = @ - enemy.direction.x * enemy.speed,
                     !.y = @ - enemy.direction.y * enemy.speed,
                     !.direction = drawn]
  ELSE [enemy EXCEPT !.x = @ + enemy.direction.x * enemy.speed,
                     !.y = @ + enemy.direction.y * enemy.speed,
                     !.direction = drawn]

\* enemyStep without the collision test.
enemyStepThroughWalls(map, bombs, enemy, drawn) ==
  [enemy EXCEPT !.x = @ + enemy.direction.x * enemy.speed,
                !.y = @ + enemy.direction.y * enemy.speed,
                !.direction = drawn]

\* One enemy's step.  `drawn` is the direction its random draws leave it
\* with: after a blocked step it is dirs[random]; otherwise it is the
\* current direction unless the per-tick redirection fires.
enemyStep(map, bombs, enemy, drawn) ==
  IF isCollision(map, bombs, enemy.x + enemy.direction.x * enemy.speed,
                 enemy.y + enemy.direction.y * enemy.speed,
                 enemy.width, enemy.height, enemy.x, enemy.y)
  THEN [enemy EXCEPT !.direction = drawn]
  ELSE [enemy EXCEPT !.x = @ + enemy.direction.x * enemy.speed,
                     !.y = @ + enemy.direction.y * enemy.speed,
                     !.direction = drawn]

-----------------------------------------------------------------------------
(* update(dt), phase by phase, on the world record                          *)
(*   [status, pending, map, player, bombs, explosions, enemies, inputs]     *)
(* status is the gameStatus update() captured, pending the argument of the  *)
(* last setGameStatus call of this frame ("none": no call yet).             *)

setLost(w) == [w EXCEPT !.player.alive = FALSE, !.pending = Lost]

\* Player move from the direction flags.
phaseMove(v, w) ==
  [w EXCEPT !.player = movePlayer(v, w.map, w.bombs, w.player, w.inputs)]

\* withPlaced that leaves the Space flag set.
withPlacedKeepsFlag(w, pb) == [w EXCEPT !.player = pb.player, !.bombs = pb.bombs]

withPlaced(w, pb) ==
  [w EXCEPT !.player = pb.player, !.bombs = pb.bombs, !.inputs["Space"] = FALSE]

\* if (inputs.Space) { placeBomb(); inputs.Space = false }
phaseSpace(w) ==
  IF w.inputs["Space"] THEN withPlaced(w, placeBomb(w.player, w.bombs)) ELSE w

phaseBombs(v, w, dt) == bombsLoop(v, w, Len(w.bombs), dt)

\* hitTests in which the explosions that stay also take away the bombs that
\* lie in their cells.
hitTestsChain(w) ==
  LET left == [w EXCEPT !.enemies = SelectSeq(@, LAMBDA e : ~burning(w.explosions, e.x, e.y)),
                        !.bombs = SelectSeq(@, LAMBDA b : ~burning(w.explosions, b.x, b.y))]
  IN IF burning(w.explosions, w.player.x, w.player.y) THEN setLost(left) ELSE left

\* hitTests that tests the player alone.
hitTestsSparesEnemies(w) ==
  IF burning(w.explosions, w.player.x, w.player.y) THEN setLost(w) ELSE w

\* The hit-tests of the explosions that stay, on the world whose
\* explosions are already aged.
hitTests(w) ==
  IF burning(w.explosions, w.player.x, w.player.y)
  THEN setLost([w EXCEPT !.enemies = SelectSeq(@, LAMBDA e : ~burning(w.explosions, e.x, e.y))])
  ELSE [w EXCEPT !.enemies = SelectSeq(@, LAMBDA e : ~burning(w.explosions, e.x, e.y))]

phaseExplosions(w, dt) ==
  hitTests([w EXCEPT !.explosions = agedExplosions(@, dt)])

\* pick = [who, dir]: enemy `who` (0: none) ends the tick with direction
\* enemyDirs[dir]; every other enemy draws its current direction again.
movedEnemies(w, pick) ==
  [w EXCEPT !.enemies =
      [i \in 1..Len(w.enemies) |->
         enemyStep(w.map, w.bombs, w.enemies[i],
                   IF i = pick.who THEN enemyDirs[pick.dir] ELSE w.enemies[i].direction)]]

\* The enemy phase without the contact test.
phaseEnemiesNoContact(w, pick) == movedEnemies(w, pick)

phaseEnemies(w, pick) ==
  IF \E i \in 1..Len(w.enemies) : touches(w.player, w.enemies[i])
  THEN movedEnemies(setLost(w), pick)
  ELSE movedEnemies(w, pick)

\* The win check without the test of the enemy collection.
winCheckAnyCount(w) ==
  IF w.status = Playing THEN [w EXCEPT !.pending = Won] ELSE w

\* if (enemies.length === 0 && gameStatus === Playing) setGameStatus(Won)
winCheck(w) ==
  IF Len(w.enemies) = 0 /\ w.status = Playing THEN [w EXCEPT !.pending = Won] ELSE w

\* update() whose guard lets the frames of a lost game through.
updateRunsWhenLost(v, w, dt, pick) ==
  IF w.status \notin {Playing, Lost} THEN w
  ELSE winCheck(phaseEnemies(phaseExplosions(phaseBombs(v, phaseSpace(phaseMove(v, w)), dt), dt),
                             pick))

\* update() whose guard lets the frames of a won game through.
updateRunsWhenWon(v, w, dt, pick) ==
  IF w.status \notin {Playing, Won} THEN w
  ELSE winCheck(phaseEnemies(phaseExplosions(phaseBombs(v, phaseSpace(phaseMove(v, w)), dt), dt),
                             pick))

update(v, w, dt, pick) ==
  IF w.status # Playing THEN w
  ELSE winCheck(phaseEnemies(phaseExplosions(phaseBombs(v, phaseSpace(phaseMove(v, w)), dt), dt),
                             pick))

\* The gameStatus React commits after the frame.
committed(w) == IF w.pending = "none" THEN w.status ELSE w.pending

-----------------------------------------------------------------------------
(* State machine *)

World == [status |-> gameStatus, pending |-> "none", map |-> mapRef, player |-> playerRef,
          bombs |-> bombsRef, explosions |-> explosionsRef,
          enemies |-> enemiesRef, inputs |-> inputsRef]

\* log: the handler that ran last, the gameStatus it started from and what
\* its placeBomb call did ("none": no call); for a detonation of SpecBlast
\* the grid before it and the bomb.
NoLog == [op |-> "none", status0 |-> Menu, place |-> "none", map0 |-> <<>>, bomb |-> <<>>]

\* The component as mounted: the refs and state as their initialisers leave
\* them, with the menu shown.
Mounted ==
  /\ variant \in {1, 2}
  /\ gameStatus = Menu
  /\ mapRef = <<>>
  /\ playerRef = newPlayer(variant, TILE_SIZE * Scale, TILE_SIZE * Scale)
  /\ bombsRef = <<>>
  /\ explosionsRef = <<>>
  /\ enemiesRef = <<>>
  /\ inputsRef = [k \in Keys |-> FALSE]
  /\ log = NoLog

Init == Mounted /\ budget \in Scenarios

\* initGame that leaves the bomb collection as it is.
initGameKeepsBombs ==
  /\ gameStatus \in {Menu, Lost, Won}
  /\ budget.rounds > 0
  /\ \E soft \in SoftLayouts : \E m \in {newMap(variant, soft)} :
       /\ mapRef' = m
       /\ \E es \in spawnEnemies(variant, m) : enemiesRef' = es
  /\ playerRef' = newPlayer(variant, (3 * TILE_SIZE * Scale) \div 2,
                            (3 * TILE_SIZE * Scale) \div 2)
  /\ explosionsRef' = <<>>
  /\ gameStatus' = Playing
  /\ log' = [NoLog EXCEPT !.op = "initGame", !.status0 = gameStatus]
  /\ budget' = [budget EXCEPT !.rounds = @ - 1]
  /\ UNCHANGED <<variant, inputsRef, bombsRef>>

\* initGame when the Math.random() < 0.3 draws of its grid loop come out as
\* one of `layouts`: the click handler of the START and RETRY buttons, which
\* are rendered only in Menu, Lost and Won.
initGameOn(layouts) ==
  /\ gameStatus \in {Menu, Lost, Won}
  /\ budget.rounds > 0
  /\ \E soft \in layouts : \E m \in {newMap(variant, soft)} :
       /\ mapRef' = m
       /\ \E es \in spawnEnemies(variant, m) : enemiesRef' = es
  /\ playerRef' = newPlayer(variant, (3 * TILE_SIZE * Scale) \div 2,
                            (3 * TILE_SIZE * Scale) \div 2)
  /\ bombsRef' = <<>>
  /\ explosionsRef' = <<>>
  /\ gameStatus' = Playing
  /\ log' = [NoLog EXCEPT !.op = "initGame", !.status0 = gameStatus]
  /\ budget' = [budget EXCEPT !.rounds = @ - 1]
  /\ UNCHANGED <<variant, inputsRef>>

\* initGame in a game that is played on.
initGame == initGameOn(SoftLayouts)

\* The budget after one more change of flag k; the change is within the
\* bounds when no count is negative.
spent(k) ==
  IF k = "Space" THEN [budget EXCEPT !.spaces = @ - 1]
  ELSE [budget EXCEPT !.arrows = @ - 1]

\* handleKeyDown / handleInputStart for one of the five action keys.
handleKeyDown(k) ==
  /\ ~inputsRef[k]
  /\ spent(k).spaces >= 0 /\ spent(k).arrows >= 0
  /\ budget' = spent(k)
  /\ inputsRef' = [inputsRef EXCEPT ![k] = TRUE]
  /\ log' = [NoLog EXCEPT !.op = "input", !.status0 = gameStatus]
  /\ UNCHANGED <<variant, gameStatus, mapRef, playerRef, bombsRef, explosionsRef,
                 enemiesRef>>

\* handleKeyUp / handleInputEnd.
handleKeyUp(k) ==
  /\ inputsRef[k]
  /\ spent(k).spaces >= 0 /\ spent(k).arrows >= 0
  /\ budget' = spent(k)
  /\ inputsRef' = [inputsRef EXCEPT ![k] = FALSE]
  /\ log' = [NoLog EXCEPT !.op = "input", !.status0 = gameStatus]
  /\ UNCHANGED <<variant, gameStatus, mapRef, playerRef, bombsRef, explosionsRef,
                 enemiesRef>>

\* The random draws of one tick's enemy phase, within the bound: at most
\* one enemy ends the tick with a direction other than its current one.
Picks ==
  {[who |-> 0, dir |-> 1]}
  \cup (IF budget.turns > 0 /\ gameStatus = Playing
        THEN {p \in [who : 1..Len(enemiesRef), dir : 1..4] :
                enemyDirs[p.dir] # enemiesRef[p.who].direction}
        ELSE {})

\* The elapsed times the frame clock may still deliver.
Dts == IF budget.timed > 0 THEN DtSet ELSE {0}

\* What the placeBomb call of this frame does ("none": no call).
placeLog(v, w) ==
  IF w.status = Playing /\ w.inputs["Space"]
  THEN placeOutcome(movePlayer(v, w.map, w.bombs, w.player, w.inputs), w.bombs)
  ELSE "none"

\* render(time): one animation frame, dt being time - lastTimeRef.
render ==
  \E dt \in Dts : \E pick \in Picks :
    /\ \E w \in {update(variant, World, dt, pick)} :
         /\ gameStatus' = committed(w)
         /\ mapRef' = w.map
         /\ playerRef' = w.player
         /\ bombsRef' = w.bombs
         /\ explosionsRef' = w.explosions
         /\ enemiesRef' = w.enemies
         /\ inputsRef' = w.inputs
    /\ log' = [NoLog EXCEPT !.op = "update", !.status0 = gameStatus,
                            !.place = placeLog(variant, World)]
    /\ budget' = [budget EXCEPT !.timed = IF dt > 0 THEN @ - 1 ELSE @,
                                !.turns = IF pick.who # 0 THEN @ - 1 ELSE @]
    /\ UNCHANGED variant

Next ==
  \/ initGame
  \/ \E k \in Keys : handleKeyDown(k)
  \/ \E k \in Keys : handleKeyUp(k)
  \/ render

Spec == Init /\ [][Next]_vars

-----------------------------------------------------------------------------
(* explodeBomb on its own: detonations, one at a time and in any order, of  *)
(* bombs lying on a grid of a running game.                                 *)

NoBudget == [rounds |-> 0, arrows |-> 0, spaces |-> 0, timed |-> 0, turns |-> 0]

\* Sequences of 1..MaxBlastBombs bombs on different cells of S.
bombsOn(S) ==
  {[i \in DOMAIN s |-> [x |-> s[i][2] * T + T \div 2, y |-> s[i][1] * T + T \div 2,
                         timer |-> BOMB_TIMER_MS, range |-> BLAST_RADIUS,
                         ownerId |-> "player"]] :
     s \in {q \in UNION {SeqsOfLen(S, n) : n \in 1..MaxBlastBombs} :
              \A i, j \in DOMAIN q : i # j => q[i] # q[j]}}

\* A game in which the player has laid bombs and stands on the last one.
InitBlast ==
  /\ variant \in {1, 2}
  /\ gameStatus = Playing
  /\ \E soft \in BlastLayouts : mapRef = newMap(variant, soft)
  /\ bombsRef \in bombsOn({p \in BlastCells : tileAt(mapRef, p[1], p[2]) = Empty})
  /\ playerRef = [newPlayer(variant, bombsRef[Len(bombsRef)].x, bombsRef[Len(bombsRef)].y)
                    EXCEPT !.bombCount = Len(bombsRef)]
  /\ explosionsRef = <<>>
  /\ enemiesRef \in spawnEnemies(variant, mapRef)
  /\ inputsRef = [k \in Keys |-> FALSE]
  /\ log = NoLog
  /\ budget = NoBudget

\* explodeBomb(bombsRef.current[index - 1], index - 1).
detonate(index) ==
  /\ index \in 1..Len(bombsRef)
  /\ \E w \in {explodeBomb(variant, World, index)} :
       /\ mapRef' = w.map
       /\ playerRef' = w.player
       /\ bombsRef' = w.bombs
       /\ explosionsRef' = w.explosions
  /\ log' = [NoLog EXCEPT !.op = "explodeBomb", !.status0 = gameStatus,
                          !.map0 = mapRef, !.bomb = bombsRef[index]]
  /\ UNCHANGED <<variant, gameStatus, enemiesRef, inputsRef, budget>>

NextBlast == \E index \in 1..MaxBlastBombs : detonate(index)

SpecBlast == InitBlast /\ [][NextBlast]_vars

-----------------------------------------------------------------------------
(* initGame on its own: the grids it generates, for every outcome of the    *)
(* draws of the cells of GridDraws.                                         *)

InitGrid == Mounted /\ budget = [NoBudget EXCEPT !.rounds = 1]

NextGrid == initGameOn(SUBSET GridDraws)

SpecGrid == InitGrid /\ [][NextGrid]_vars

-----------------------------------------------------------------------------
(* Movement: the game while no time elapses, with more changes of the       *)
(* direction flags than in Spec.                                            *)

\* A game in which the player has laid a bomb in one of the two cells next
\* to the spawn cell and walked off it: it stands, clear of the walls and of
\* the bomb, a whole number of steps off the spawn point on each axis; one
\* more change of a direction flag is to come.
Cornered ==
  /\ variant \in {1, 2}
  /\ gameStatus = Playing
  /\ \E soft \in RoamLayouts : mapRef = newMap(variant, soft)
  /\ \E cell \in {<<1, 2>>, <<2, 1>>} :
       bombsRef = <<[x |-> cell[2] * T + T \div 2, y |-> cell[1] * T + T \div 2,
                     timer |-> BOMB_TIMER_MS, range |-> BLAST_RADIUS,
                     ownerId |-> "player"]>>
  /\ \E i, j \in (-MaxCornerSteps)..MaxCornerSteps :
       /\ playerRef = [newPlayer(variant, (3 * T) \div 2 + i * PlayerSpeed(variant),
                                 (3 * T) \div 2 + j * PlayerSpeed(variant))
                         EXCEPT !.bombCount = 1]
       /\ ~isCollision(mapRef, bombsRef, playerRef.x, playerRef.y, playerRef.width,
                       playerRef.height, 0, 0)
  /\ explosionsRef = <<>>
  /\ enemiesRef \in spawnEnemies(variant, mapRef)
  /\ inputsRef = [k \in Keys |-> FALSE]
  /\ log = NoLog
  /\ budget = [NoBudget EXCEPT !.arrows = 1]

InitMove == (Mounted /\ budget \in MoveScenarios) \/ Cornered

\* The player walks about in a closed corner; the enemies turn in a game
\* in which the first row is open up to them.
NextMove ==
  \/ initGameOn(IF budget.turns > 0 THEN SoftLayouts ELSE RoamLayouts)
  \/ \E k \in Keys : handleKeyDown(k)
  \/ \E k \in Keys : handleKeyUp(k)
  \/ render

SpecMove == InitMove /\ [][NextMove]_vars

-----------------------------------------------------------------------------
(* Bombs: limits of placement *)

samePair(player, bombs) == [player |-> player, bombs |-> bombs]

\* A live bomb lies in the grid cell of the point (x, y).
bombInCell(bombs, x, y) ==
  \E i \in 1..Len(bombs) : getGridPos(bombs[i].x, bombs[i].y) = getGridPos(x, y)

\* C1: in every reachable state the player's bombCount is at most maxBombs,
\* which is 3, and a placeBomb call made with bombCount >= maxBombs adds no
\* bomb (it returns the player and the bomb collection as they are).
C1_BombCountAtMostMax ==
  /\ playerRef.maxBombs = MAX_BOMBS
  /\ playerRef.bombCount <= playerRef.maxBombs
  /\ playerRef.bombCount >= playerRef.maxBombs =>
       placeBomb(playerRef, bombsRef) = samePair(playerRef, bombsRef)

\* A frame called placeBomb with three live bombs counted, and three bombs
\* are there after it.
C1_Witness ==
  /\ log.op = "update" /\ log.place = "full"
  /\ playerRef.bombCount = playerRef.maxBombs
  /\ Len(bombsRef) = MAX_BOMBS

\* C2: in every reachable state no two live bombs lie in the same grid
\* cell, and a placeBomb call made while a bomb lies in the player's grid
\* cell changes neither the bomb collection nor bombCount.
C2_OneBombPerCell ==
  /\ \A i, j \in 1..Len(bombsRef) :
       i # j => getGridPos(bombsRef[i].x, bombsRef[i].y)
                # getGridPos(bombsRef[j].x, bombsRef[j].y)
  /\ bombInCell(bombsRef, playerRef.x, playerRef.y) =>
       placeBomb(playerRef, bombsRef) = samePair(playerRef, bombsRef)

\* A frame called placeBomb with a bomb in the player's cell and fewer than
\* maxBombs bombs counted; the one bomb is still the only one.
C2_Witness ==
  /\ log.op = "update" /\ log.place = "occupied"
  /\ Len(bombsRef) = 1 /\ playerRef.bombCount = 1
  /\ bombInCell(bombsRef, playerRef.x, playerRef.y)

-----------------------------------------------------------------------------
(* Detonations: what the source's ray casting has to produce, stated        *)
(* without it                                                               *)

inGrid(r, c) == r \in 0..(GRID_ROWS - 1) /\ c \in 0..(GRID_COLS - 1)

dirSet == {dirs[k] : k \in DOMAIN dirs}

\* The cell i steps from center in direction d, as <<row, column>>.
cellAt(center, d, i) == <<center.r + d.dr * i, center.c + d.dc * i>>

\* The tile of a cell, "outside" beyond the grid.
tileOf(map, cell) ==
  IF inGrid(cell[1], cell[2]) THEN tileAt(map, cell[1], cell[2]) ELSE "outside"

\* The distance of the first cell of the ray that is not Empty, range + 1
\* when the ray has none.
firstStop(map, center, d, range) ==
  IF \E i \in 1..range : tileOf(map, cellAt(center, d, i)) # Empty
  THEN CHOOSE i \in 1..range :
         /\ tileOf(map, cellAt(center, d, i)) # Empty
         /\ \A j \in 1..(i - 1) : tileOf(map, cellAt(center, d, j)) = Empty
  ELSE range + 1

\* The SoftWall that ends the ray, if one does.
hitWalls(map, center, d, range) ==
  {cellAt(center, d, i) : i \in {k \in 1..range :
      k = firstStop(map, center, d, range)
      /\ tileOf(map, cellAt(center, d, k)) = SoftWall}}

\* The cells of the ray that burn.
rayCells(map, center, d, range) ==
  {cellAt(center, d, i) : i \in 1..(firstStop(map, center, d, range) - 1)}
  \cup hitWalls(map, center, d, range)

blastCells(map, center, range) ==
  {<<center.r, center.c>>} \cup UNION {rayCells(map, center, d, range) : d \in dirSet}

particleCells(e) == {<<e.particles[k].y, e.particles[k].x>> : k \in DOMAIN e.particles}

\* Explosion e is what the detonation of `bomb` on grid `map` has to burn.
exactBlast(map, bomb, e) ==
  LET center == getGridPos(bomb.x, bomb.y)
  IN /\ particleCells(e) = blastCells(map, center, bomb.range)
     /\ Len(e.particles) = Cardinality(particleCells(e))
     /\ \E k \in DOMAIN e.particles : e.particles[k] = [x |-> center.c, y |-> center.r]
     /\ \A d \in dirSet : \A i \in 1..bomb.range :
          cellAt(center, d, i) \in particleCells(e) =>
            /\ tileOf(map, cellAt(center, d, i)) \in {Empty, SoftWall}
            /\ \A j \in 1..(i - 1) : tileOf(map, cellAt(center, d, j)) = Empty

lastOf(seq) == seq[Len(seq)]

\* C3: the explosion a detonation adds burns exactly the bomb's own cell
\* and, in each of the four directions, the cells at distance 1..range up to
\* but without the first cell that is outside the grid or a HardWall, or up
\* to and with the first SoftWall; nothing beyond the first wall of a ray,
\* and no cell twice.  Stated of the detonation just made and of the
\* detonation of every bomb that lies on the grid.
C3_ParticlesExact ==
  /\ log.op = "explodeBomb" => exactBlast(log.map0, log.bomb, lastOf(explosionsRef))
  /\ \A i \in 1..Len(bombsRef) :
       exactBlast(mapRef, bombsRef[i],
                  lastOf(explodeBomb(variant, World, i).explosions))

\* A bomb went off whose four rays ended in the three ways: at a HardWall,
\* at a SoftWall, and at the full range.
C3_Witness ==
  /\ log.op = "explodeBomb"
  /\ LET center == getGridPos(log.bomb.x, log.bomb.y)
         stop(d) == firstStop(log.map0, center, d, log.bomb.range)
     IN /\ \E d \in dirSet : /\ stop(d) <= log.bomb.range
                              /\ tileOf(log.map0, cellAt(center, d, stop(d))) = HardWall
        /\ \E d \in dirSet : hitWalls(log.map0, center, d, log.bomb.range) # {}
        /\ \E d \in dirSet : stop(d) > log.bomb.range
        /\ Len(lastOf(explosionsRef).particles) > BLAST_RADIUS + 1

\* The detonation of `bomb` turned grid map0 into map1 and added e.
exactDamage(map0, bomb, map1, e) ==
  LET center == getGridPos(bomb.x, bomb.y)
      walls == UNION {hitWalls(map0, center, d, bomb.range) : d \in dirSet}
      changed == {cell \in Cells : tileOf(map0, cell) # tileOf(map1, cell)}
  IN /\ Len(map1) = Len(map0) /\ \A r \in DOMAIN map0 : Len(map1[r]) = Len(map0[r])
     /\ \A cell \in Cells :
          tileOf(map1, cell) = IF cell \in walls THEN Empty ELSE tileOf(map0, cell)
     /\ \A cell \in changed :
          tileOf(map0, cell) = SoftWall /\ cell \in particleCells(e)
     /\ Cardinality(changed) <= Len(dirs)
     /\ \A d \in dirSet :
          /\ Cardinality({i \in 1..bomb.range : cellAt(center, d, i) \in changed}) <= 1
          /\ \A i \in 1..bomb.range : cellAt(center, d, i) \in changed =>
               \A j \in (i + 1)..bomb.range : cellAt(center, d, j) \notin particleCells(e)

\* C4: a detonation changes the grid only at the SoftWall cells that ended
\* one of its four rays: each becomes Empty and is a particle, at most one
\* per ray and four per detonation, no particle lies past a destroyed wall,
\* and every other tile stays as it was.
C4_OnlyRayEndsCleared ==
  /\ log.op = "explodeBomb" =>
       exactDamage(log.map0, log.bomb, mapRef, lastOf(explosionsRef))
  /\ \A i \in 1..Len(bombsRef) :
       exactDamage(mapRef, bombsRef[i], explodeBomb(variant, World, i).map,
                   lastOf(explodeBomb(variant, World, i).explosions))

\* A bomb of range 2 went off with a SoftWall one cell north of it and an
\* Empty cell two north: the wall is gone and is a particle, the cell behind
\* it is no particle.
C4_Witness ==
  /\ log.op = "explodeBomb" /\ log.bomb.range = BLAST_RADIUS
  /\ LET center == getGridPos(log.bomb.x, log.bomb.y)
         north1 == <<center.r - 1, center.c>>
         north2 == <<center.r - 2, center.c>>
     IN /\ tileOf(log.map0, north1) = SoftWall /\ tileOf(log.map0, north2) = Empty
        /\ tileOf(mapRef, north1) = Empty
        /\ north1 \in particleCells(lastOf(explosionsRef))
        /\ north2 \notin particleCells(lastOf(explosionsRef))

-----------------------------------------------------------------------------
(* The grid during a round *)

\* Grid map1 is grid map0 with some SoftWall cells turned Empty.
onlyCleared(map0, map1) ==
  \/ map1 = map0
  \/ /\ DOMAIN map1 = DOMAIN map0 /\ \A r \in DOMAIN map0 : DOMAIN map1[r] = DOMAIN map0[r]
     /\ \A r \in DOMAIN map0 : \A c \in DOMAIN map0[r] :
          \/ map1[r][c] = map0[r][c]
          \/ map0[r][c] = SoftWall /\ map1[r][c] = Empty

\* The border and the pillars on the cells of even row and even column
\* (rows and columns counted from 0).
isFrame(r, c) ==
  \/ r \in {0, GRID_ROWS - 1} \/ c \in {0, GRID_COLS - 1}
  \/ (r % 2 = 0 /\ c % 2 = 0)

\* The HardWall cells of the grid are the frame.
hardIsFrame(map) ==
  \A r \in DOMAIN map : \A c \in DOMAIN map[r] :
    map[r][c] = HardWall <=> isFrame(r - 1, c - 1)

\* C5: from one initGame to the next the only tile change is SoftWall to
\* Empty: the grid is the one initGame built with some SoftWall cells
\* cleared, its HardWall cells are the border and the even-even pillars, it
\* has GRID_ROWS rows of GRID_COLS tiles, and no frame changes it in another
\* way, whatever the elapsed time.
C5_OnlySoftWallsCleared ==
  mapRef # <<>> =>
    /\ Len(mapRef) = GRID_ROWS /\ \A r \in DOMAIN mapRef : Len(mapRef[r]) = GRID_COLS
    /\ \E soft \in SoftLayouts : onlyCleared(newMap(variant, soft), mapRef)
    /\ hardIsFrame(mapRef)
    /\ gameStatus = Playing =>
         \A dt \in DtSet : \A pick \in Picks :
           onlyCleared(mapRef, update(variant, World, dt, pick).map)

\* A frame has cleared a SoftWall of the grid initGame built.
C5_Witness ==
  /\ log.op = "update" /\ mapRef # <<>>
  /\ \E soft \in SoftLayouts : \E cell \in soft :
       /\ tileOf(newMap(variant, soft), cell) = SoftWall
       /\ tileOf(mapRef, cell) = Empty

-----------------------------------------------------------------------------
(* Round status *)

\* C6: at the end of a frame that ran in Playing, if a particle of an
\* explosion that is still there is the player's grid cell, then gameStatus
\* is Lost and the player is not alive.
C6_BlastOnPlayerLoses ==
  (/\ log.op = "update" /\ log.status0 = Playing
   /\ burning(explosionsRef, playerRef.x, playerRef.y))
  => gameStatus = Lost /\ ~playerRef.alive

\* C7: a frame that ran in Playing ends with gameStatus Won exactly when it
\* ends with no enemy in the collection, whatever the elapsed time, and
\* gameStatus is never Won while an enemy is in the collection.
C7_WonIffNoEnemy ==
  /\ gameStatus = Won => Len(enemiesRef) = 0
  /\ (log.op = "update" /\ log.status0 = Playing) =>
       (Len(enemiesRef) = 0 <=> gameStatus = Won)
  /\ gameStatus = Playing =>
       \A dt \in DtSet : \A pick \in Picks :
         LET w == update(variant, World, dt, pick)
         IN Len(w.enemies) = 0 <=> committed(w) = Won

\* A frame of the first definition, which starts with four enemies, ended
\* the game as Won.
C7_Witness ==
  /\ variant = 1 /\ log.op = "update" /\ log.status0 = Playing
  /\ gameStatus = Won /\ Len(enemiesRef) = 0

\* C8: in Won or Lost no frame calls setGameStatus, whatever the elapsed
\* time, so the status stays and the change to Lost is made once in a round;
\* a handler that started in Won or Lost and ended in another status is
\* initGame and ended in Playing; a frame that ends a game started in
\* Playing; and no handler that started outside Menu ends in Menu.
C8_WonLostTerminal ==
  /\ gameStatus \in {Won, Lost} =>
       \A dt \in DtSet : \A pick \in Picks :
         LET w == update(variant, World, dt, pick)
         IN w.pending = "none" /\ committed(w) = gameStatus
  /\ (log.status0 \in {Won, Lost} /\ gameStatus # log.status0) =>
       (log.op = "initGame" /\ gameStatus = Playing)
  /\ (log.op = "update" /\ gameStatus \in {Won, Lost} /\ gameStatus # log.status0) =>
       log.status0 = Playing
  /\ log.status0 # Menu => gameStatus # Menu

\* A frame ran in Lost with an enemy on the player, and the game is still
\* Lost.
C8_Witness ==
  /\ log.op = "update" /\ log.status0 = Lost /\ gameStatus = Lost
  /\ \E i \in 1..Len(enemiesRef) : touches(playerRef, enemiesRef[i])

\* C9: in Lost or Won a frame leaves the grid, the player, the bombs and
\* their timers, the explosions and their timers, the enemies and the input
\* flags as they are, for every elapsed time and every setting of the
\* input flags.
C9_NoChangeAfterGameOver ==
  gameStatus \in {Lost, Won} =>
    \A dt \in DtSet : \A pick \in Picks : \A inputs \in [Keys -> BOOLEAN] :
      update(variant, [World EXCEPT !.inputs = inputs], dt, pick)
      = [World EXCEPT !.inputs = inputs]

\* A frame ran after the game was over with a live bomb on the grid and a
\* direction flag set, and bomb and flag are as they were.
C9_Witness ==
  /\ log.op = "update" /\ log.status0 \in {Lost, Won} /\ gameStatus = log.status0
  /\ Len(bombsRef) > 0 /\ bombsRef[1].timer = BOMB_TIMER_MS
  /\ \E k \in Keys : inputsRef[k]

\* The enemies are as the spawn loop makes them: each at the centre of an
\* Empty cell with row or column above 4, heading right.
freshEnemies ==
  \A i \in 1..Len(enemiesRef) :
    \E cell \in Cells :
      /\ enemiesRef[i] = newEnemy(cell)
      /\ tileOf(mapRef, cell) = Empty /\ (cell[1] > 4 \/ cell[2] > 4)

\* All that initGame sets but the number of enemies.
restarted ==
  /\ gameStatus = Playing
  /\ playerRef.x = (3 * TILE_SIZE * Scale) \div 2
  /\ playerRef.y = (3 * TILE_SIZE * Scale) \div 2
  /\ playerRef.alive /\ playerRef.bombCount = 0
  /\ bombsRef = <<>> /\ explosionsRef = <<>>
  /\ \E soft \in SoftLayouts : mapRef = newMap(variant, soft)
  /\ freshEnemies

\* C10 as stated: after initGame called in Lost or Won the status is
\* Playing, the player is alive at (1.5, 1.5) tiles with bombCount 0, there
\* are no bombs and no explosions, the grid is newly built, and the number
\* of enemies is the spawn count.
C10_RestartSpawnsAll ==
  (log.op = "initGame" /\ log.status0 \in {Lost, Won}) =>
    (restarted /\ Len(enemiesRef) = EnemyCount(variant))

\* C10, amended: as above, but the number of enemies is at most the spawn
\* count; it is the spawn count in the first definition, whose spawn loop
\* has no attempt cap.
C10_RestartResets ==
  (log.op = "initGame" /\ log.status0 \in {Lost, Won}) =>
    /\ restarted
    /\ Len(enemiesRef) <= EnemyCount(variant)
    /\ variant = 1 => Len(enemiesRef) = EnemyCount(variant)

\* initGame ran in Lost or Won after a round in which a bomb key event and
\* a timed frame had happened.
C10_Witness ==
  /\ log.op = "initGame" /\ log.status0 \in {Lost, Won}
  /\ budget.spaces < MaxSpaceEvents /\ budget.timed < MaxTimedFrames
  /\ budget.rounds = MaxRounds - 2
  /\ Len(enemiesRef) > 0

-----------------------------------------------------------------------------
(* Grid generation *)

wellFormed(map) ==
  /\ \A p \in Cells :
       IF isFrame(p[1], p[2]) THEN tileAt(map, p[1], p[2]) = HardWall
       ELSE tileAt(map, p[1], p[2]) \in {Empty, SoftWall}
  /\ tileAt(map, 1, 1) = Empty /\ tileAt(map, 1, 2) = Empty /\ tileAt(map, 2, 1) = Empty

\* C11: every grid initGame produces, whatever the SoftWall draws, has
\* HardWall on every border cell and on every cell whose row and column are
\* both even, Empty or SoftWall on every other cell, and Empty on the cells
\* (1,1), (1,2) and (2,1) next to the spawn.
C11_GridWellFormed ==
  log.op = "initGame" => wellFormed(mapRef)

\* initGame ran in the second definition, the draws of the three cells next
\* to the spawn, of a border cell and of a cell with even row and column
\* being among those that may come out < 0.3, and left SoftWalls right
\* beside the spawn.
C11_Witness ==
  /\ log.op = "initGame" /\ variant = 2
  /\ tileAt(mapRef, 1, 3) = SoftWall /\ tileAt(mapRef, 3, 1) = SoftWall
  /\ tileAt(mapRef, 13, 13) = SoftWall

-----------------------------------------------------------------------------
(* Movement against walls and bombs *)

\* The states of the four direction flags (Space as it is).
arrowSnapshots ==
  {[k \in Keys |-> IF k = "Space" THEN inputsRef["Space"] ELSE k \in held] :
     held \in SUBSET (Keys \ {"Space"})}

\* The rectangle of an entity of width w and height h centred on (x, y), and
\* the tile rectangle of a bomb.
rectAt(x, y, w, h) == [x |-> x - w \div 2, y |-> y - h \div 2, w |-> w, h |-> h]
bombRect(b) == [x |-> b.x - T \div 2, y |-> b.y - T \div 2, w |-> T, h |-> T]
onBomb(e, b) == rectIntersect(rectAt(e.x, e.y, e.width, e.height), bombRect(b))

\* Every cell the rectangle of `e`, were it centred on (x, y), has a point
\* in is an in-bounds Empty cell (the rectangle is smaller than a tile, so
\* the cells are the cell of (x, y) or neighbours of it).
clearAt(map, e, x, y) ==
  \A r \in (y \div T - 1)..(y \div T + 1), c \in (x \div T - 1)..(x \div T + 1) :
    rectIntersect(rectAt(x, y, e.width, e.height), [x |-> c * T, y |-> r * T, w |-> T, h |-> T])
      => /\ r \in 0..(GRID_ROWS - 1) /\ c \in 0..(GRID_COLS - 1)
         /\ tileAt(map, r, c) = Empty

\* Every bomb the rectangle of `e` centred on (x, y) overlaps is one that e
\* overlaps where it is.
onlyOwnBombs(bombs, e, x, y) ==
  \A i \in 1..Len(bombs) :
    rectIntersect(rectAt(x, y, e.width, e.height), bombRect(bombs[i])) => onBomb(e, bombs[i])

\* What C12 says of the step of `player` by (dx, dy).
passesThrough(map, bombs, player, dx, dy) ==
  (clearAt(map, player, player.x + dx, player.y + dy)
   /\ onlyOwnBombs(bombs, player, player.x + dx, player.y + dy))
    => ~isCollision(map, bombs, player.x + dx, player.y + dy, player.width,
                    player.height, player.x, player.y)

\* C12: isCollision never reports as blocking a bomb that the entity's
\* current rectangle overlaps: a target whose rectangle covers only
\* in-bounds Empty cells and overlaps no bomb but those the current
\* rectangle overlaps is not a collision, so that the player, standing on a
\* bomb or not, makes every such move of either axis.
C12_OwnBombPassable ==
  gameStatus = Playing =>
    \A d \in {desiredMove(snap, playerRef.speed) : snap \in arrowSnapshots} :
      LET p1 == moveX(variant, mapRef, bombsRef, playerRef, d.dx)
      IN /\ passesThrough(mapRef, bombsRef, playerRef, d.dx, 0)
         /\ passesThrough(mapRef, bombsRef, p1, 0, d.dy)
         /\ (clearAt(mapRef, playerRef, playerRef.x + d.dx, playerRef.y)
             /\ onlyOwnBombs(bombsRef, playerRef, playerRef.x + d.dx, playerRef.y))
              => p1 = [playerRef EXCEPT !.x = @ + d.dx]
         /\ (clearAt(mapRef, p1, p1.x, p1.y + d.dy)
             /\ onlyOwnBombs(bombsRef, p1, p1.x, p1.y + d.dy))
              => moveY(variant, mapRef, bombsRef, p1, d.dy) = [p1 EXCEPT !.y = @ + d.dy]

\* The player has laid a bomb under itself and walked on: its centre is in
\* the next cell while its rectangle still overlaps the bomb's tile, and the
\* cells ahead are free.
C12_Witness ==
  /\ log.op = "update" /\ gameStatus = Playing
  /\ Len(bombsRef) = 1 /\ onBomb(playerRef, bombsRef[1])
  /\ getGridPos(playerRef.x, playerRef.y) # getGridPos(bombsRef[1].x, bombsRef[1].y)
  /\ inputsRef["ArrowRight"]
  /\ clearAt(mapRef, playerRef, playerRef.x + playerRef.speed, playerRef.y)

\* The player after the movement of a tick that asks for the displacement d.
movedBy(v, map, bombs, player, d) ==
  moveY(v, map, bombs, moveX(v, map, bombs, player, d.dx), d.dy)

\* `after` overlaps none of the bombs that `before` is clear of.
noNewBomb(bombs, before, after) ==
  \A i \in 1..Len(bombs) : ~onBomb(before, bombs[i]) => ~onBomb(after, bombs[i])

\* C13: no entity walks onto a bomb from outside.  Whatever the direction
\* flags, the player's rectangle after the movement of a tick (slides
\* included) overlaps no live bomb's tile that it was clear of at the start
\* of the tick; and whatever its direction, an enemy's rectangle after its
\* step of the tick overlaps no bomb, live at the start of the tick, that it
\* was clear of.
C13_NoWalkOntoBomb ==
  gameStatus = Playing =>
    /\ \A d \in {desiredMove(snap, playerRef.speed) : snap \in arrowSnapshots} :
         noNewBomb(bombsRef, playerRef, movedBy(variant, mapRef, bombsRef, playerRef, d))
    /\ LET w == phaseSpace(phaseMove(variant, World))
       IN \A i \in 1..Len(enemiesRef), k \in 1..4 :
            noNewBomb(bombsRef, enemiesRef[i],
                      enemyStep(w.map, w.bombs,
                                [enemiesRef[i] EXCEPT !.direction = enemyDirs[k]],
                                enemyDirs[k]))

\* The player has walked off the bomb it laid and stands clear of it, one
\* step away: a step back would overlap the bomb's tile.
C13_Witness ==
  /\ log.op = "update" /\ gameStatus = Playing
  /\ Len(bombsRef) = 1 /\ ~onBomb(playerRef, bombsRef[1])
  /\ rectIntersect(rectAt(playerRef.x - playerRef.speed, playerRef.y,
                          playerRef.width, playerRef.height), bombRect(bombsRef[1]))

\* Offset of a coordinate from the centreline of the lane (row or column of
\* tiles) it lies in.
laneOffset(coord) == coord - ((coord \div T) * T + T \div 2)

misaligned(coord) == Abs(laneOffset(coord)) >= SNAP_THRESHOLD * Scale

blockedAt(map, bombs, player, x, y) ==
  isCollision(map, bombs, x, y, player.width, player.height, player.x, player.y)

\* The states of the direction flags with exactly one flag set.
oneArrowSnapshots ==
  {snap \in arrowSnapshots : Cardinality({k \in Keys \ {"Space"} : snap[k]}) = 1}

\* C14: when the player's desired move on an axis is blocked and its offset
\* from the lane centreline on the other axis is 20 px or more either way,
\* that axis's resolution leaves the player where it is, on both axes; a
\* move in a single direction that is blocked with such an offset leaves x
\* and y unchanged for the tick.
C14_BlockedMisalignedStays ==
  gameStatus = Playing =>
    /\ \A d \in {desiredMove(snap, playerRef.speed) : snap \in arrowSnapshots} :
         LET p1 == moveX(variant, mapRef, bombsRef, playerRef, d.dx)
         IN /\ (d.dx # 0 /\ misaligned(playerRef.y)
                /\ blockedAt(mapRef, bombsRef, playerRef, playerRef.x + d.dx, playerRef.y))
                 => p1 = playerRef
            /\ (d.dy # 0 /\ misaligned(p1.x)
                /\ blockedAt(mapRef, bombsRef, p1, p1.x, p1.y + d.dy))
                 => moveY(variant, mapRef, bombsRef, p1, d.dy) = p1
    /\ \A snap \in oneArrowSnapshots :
         LET d == desiredMove(snap, playerRef.speed)
         IN (blockedAt(mapRef, bombsRef, playerRef, playerRef.x + d.dx, playerRef.y + d.dy)
             /\ (IF d.dx # 0 THEN misaligned(playerRef.y) ELSE misaligned(playerRef.x)))
              => movePlayer(variant, mapRef, bombsRef, playerRef, snap) = playerRef

\* A frame ran with ArrowRight alone set while the player, 20 px or more
\* below the centreline of its row, had a HardWall in the way.
C14_Witness ==
  /\ log.op = "update" /\ gameStatus = Playing
  /\ inputsRef = [k \in Keys |-> k = "ArrowRight"]
  /\ misaligned(playerRef.y) /\ laneOffset(playerRef.y) > 0
  /\ blockedAt(mapRef, bombsRef, playerRef, playerRef.x + playerRef.speed, playerRef.y)
  /\ tileAt(mapRef, (playerRef.y + playerRef.height \div 2 - EPS) \div T,
            (playerRef.x + playerRef.speed + playerRef.width \div 2 - EPS) \div T) = HardWall

-----------------------------------------------------------------------------
(* Grid bounds *)

inBounds(pos) == pos.r \in 0..(GRID_ROWS - 1) /\ pos.c \in 0..(GRID_COLS - 1)

\* The cells the tile loop of isCollision runs over for a rectangle of
\* width w and height h centred on (x, y).
loopCells(x, y, w, h) ==
  {[r |-> r, c |-> c] :
     r \in ((y - h \div 2) \div T)..((y - h \div 2 + h - EPS) \div T),
     c \in ((x - w \div 2) \div T)..((x - w \div 2 + w - EPS) \div T)}

\* Centres of rectangles that lie, in part or as a whole, outside the grid.
outsideTargets ==
  {[x |-> 0, y |-> (3 * T) \div 2], [x |-> (3 * T) \div 2, y |-> 0],
   [x |-> -T, y |-> -T], [x |-> GRID_COLS * T, y |-> (3 * T) \div 2],
   [x |-> (3 * T) \div 2, y |-> GRID_ROWS * T + T \div 2]}

\* Cells on the border of the grid, as centres of a blast.
borderCenters ==
  {[r |-> 0, c |-> 1], [r |-> 1, c |-> 0], [r |-> GRID_ROWS - 1, c |-> 1],
   [r |-> 1, c |-> GRID_COLS - 1]}

\* The particles of a blast of range BLAST_RADIUS centred on `center`.
blastFrom(map, center) ==
  castRay(castRay(castRay(castRay([map |-> map, particles |-> <<[x |-> center.c, y |-> center.r]>>],
                                  center, dirs[1], 1, BLAST_RADIUS),
                          center, dirs[2], 1, BLAST_RADIUS),
                  center, dirs[3], 1, BLAST_RADIUS),
          center, dirs[4], 1, BLAST_RADIUS).particles

particlesInBounds(particles) ==
  \A k \in 1..Len(particles) : inBounds([r |-> particles[k].y, c |-> particles[k].x])

\* C15: in every reachable state the grid cell of the player, of every
\* enemy, of every bomb and of every explosion particle lies within
\* [0, GRID_ROWS) x [0, GRID_COLS).  No operation indexes the grid outside
\* those bounds: the tile loop of isCollision stays inside the grid for
\* every step the player or an enemy can ask for, the blast of every live
\* bomb consists of cells of the grid, and for a rectangle reaching outside
\* the grid isCollision answers "blocked", as a ray from a border cell stops
\* at the edge.
C15_CellsInBounds ==
  /\ inBounds(getGridPos(playerRef.x, playerRef.y))
  /\ \A i \in 1..Len(enemiesRef) : inBounds(getGridPos(enemiesRef[i].x, enemiesRef[i].y))
  /\ \A i \in 1..Len(bombsRef) : inBounds(getGridPos(bombsRef[i].x, bombsRef[i].y))
  /\ \A i \in 1..Len(explosionsRef) : particlesInBounds(explosionsRef[i].particles)
  /\ gameStatus = Playing =>
       /\ \A d \in {desiredMove(snap, playerRef.speed) : snap \in arrowSnapshots} :
            \A pos \in loopCells(playerRef.x + d.dx, playerRef.y, playerRef.width,
                                 playerRef.height)
                       \cup loopCells(playerRef.x, playerRef.y + d.dy, playerRef.width,
                                      playerRef.height) : inBounds(pos)
       /\ \A i \in 1..Len(enemiesRef), k \in 1..4 :
            \A pos \in loopCells(enemiesRef[i].x + enemyDirs[k].x * enemiesRef[i].speed,
                                 enemiesRef[i].y + enemyDirs[k].y * enemiesRef[i].speed,
                                 enemiesRef[i].width, enemiesRef[i].height) : inBounds(pos)
       /\ \A i \in 1..Len(bombsRef) :
            particlesInBounds(blastFrom(mapRef, getGridPos(bombsRef[i].x, bombsRef[i].y)))
       /\ \A t \in outsideTargets :
            isCollision(mapRef, bombsRef, t.x, t.y, playerRef.width, playerRef.height,
                        playerRef.x, playerRef.y)
       /\ \A center \in borderCenters : particlesInBounds(blastFrom(mapRef, center))

\* A bomb laid in the corner cell (1,1) has gone off, its rays towards the
\* two edges of the grid cut short, with enemies in the game.
C15_Witness ==
  /\ log.op = "update"
  /\ Len(explosionsRef) > 0
  /\ explosionsRef[1].particles[1] = [x |-> 1, y |-> 1]
  /\ \A k \in 1..Len(explosionsRef[1].particles) :
       explosionsRef[1].particles[k].x >= 1 /\ explosionsRef[1].particles[k].y >= 1
  /\ Len(enemiesRef) > 0

-----------------------------------------------------------------------------
(* Timing *)

\* The world the next frame starts from: the status committed, no
\* setGameStatus call pending.
nextFrame(w) == [w EXCEPT !.status = committed(w), !.pending = "none"]

\* No draw of the enemy phase changes a direction.
noPick == [who |-> 0, dir |-> 1]

\* The positions of the player and of the enemies.
positions(w) ==
  <<w.player.x, w.player.y, [i \in 1..Len(w.enemies) |-> <<w.enemies[i].x, w.enemies[i].y>>]>>

\* C16: the simulation is frame-rate independent: in a tick, the timers of
\* the bombs that stay decrease by dt, and the player and the enemies are
\* where two ticks of half the elapsed time each would have put them (the
\* distance moved is proportional to dt, not a constant per tick).
C16_FrameRateIndependent ==
  gameStatus = Playing =>
    \A dt \in DtSet :
      LET once == update(variant, World, 2 * dt, noPick)
          twice == update(variant, nextFrame(update(variant, World, dt, noPick)), dt, noPick)
      IN /\ \A i \in 1..Len(bombsRef) :
              bombsRef[i].timer - 2 * dt > 0 =>
                \E j \in 1..Len(once.bombs) :
                  once.bombs[j] = [bombsRef[i] EXCEPT !.timer = @ - 2 * dt]
         /\ (committed(once) = Playing /\ committed(twice) = Playing)
              => positions(once) = positions(twice)

-----------------------------------------------------------------------------
(* Bombs: life cycle *)

\* The bombs with dt taken off their timers, and those of them that stay.
agedBombs(bombs, dt) == [i \in 1..Len(bombs) |-> [bombs[i] EXCEPT !.timer = @ - dt]]
liveBombs(bombs, dt) == SelectSeq(agedBombs(bombs, dt), LAMBDA b : b.timer > 0)

\* The first n elements of a sequence.
firstOf(seq, n) == [i \in 1..n |-> seq[i]]

\* The blast of bomb i goes through bomb j: where j lies, within range on a
\* ray of i with Empty cells in between, is a particle, and so is the cell
\* behind it if that is within range and Empty or SoftWall.
burnsThrough(map, bombs, i, j) ==
  LET center == getGridPos(bombs[i].x, bombs[i].y)
      other == getGridPos(bombs[j].x, bombs[j].y)
      blast == particleCells([particles |-> blastFrom(map, center)])
  IN \A d \in dirSet : \A n \in 1..bombs[i].range :
       (/\ cellAt(center, d, n) = <<other.r, other.c>>
        /\ (\A m \in 1..(n - 1) : tileOf(map, cellAt(center, d, m)) = Empty))
         => /\ <<other.r, other.c>> \in blast
            /\ (n < bombs[i].range
                /\ tileOf(map, cellAt(center, d, n + 1)) \in {Empty, SoftWall})
                 => cellAt(center, d, n + 1) \in blast

\* C17: during a round a bomb leaves the bomb collection only in a tick in
\* which its own timer has reached 0 or less, and each removal adds one
\* explosion: after a tick the bombs are those that were there or were laid
\* in it, aged by dt, whose timer is still positive, and the bombs phase has
\* added as many explosions as bombs have gone.  An explosion that covers a
\* bomb's cell takes no bomb away, and the rays of a blast go through the
\* cells where other bombs lie.
C17_BombsLeaveOnTimeout ==
  gameStatus = Playing =>
    /\ \A dt \in DtSet :
         LET laid == phaseSpace(phaseMove(variant, World))
             gone == phaseBombs(variant, laid, dt)
         IN /\ update(variant, World, dt, noPick).bombs = liveBombs(laid.bombs, dt)
            /\ Len(gone.explosions)
                 = Len(explosionsRef) + Len(laid.bombs) - Len(liveBombs(laid.bombs, dt))
            /\ firstOf(gone.explosions, Len(explosionsRef)) = explosionsRef
    /\ \A i, j \in 1..Len(bombsRef) : i # j => burnsThrough(mapRef, bombsRef, i, j)

\* A bomb has gone off in the last tick while a younger bomb lay one cell
\* away on one of its rays: the explosion covers the younger bomb's cell and
\* the cell behind it, and the younger bomb is still there.
C17_Witness ==
  /\ log.op = "update"
  /\ Len(bombsRef) = 1 /\ Len(explosionsRef) = 1
  /\ explosionsRef[1].particles[1] = [x |-> 1, y |-> 1]
  /\ getGridPos(bombsRef[1].x, bombsRef[1].y) = [c |-> 2, r |-> 1]
  /\ {<<1, 2>>, <<1, 3>>} \subseteq particleCells(explosionsRef[1])

\* C18: in every reachable state the player's bombCount is the number of
\* bombs in the bomb collection and is not negative.  A placeBomb call adds
\* one to it exactly when it adds a bomb, a detonation takes exactly one off
\* it, and it is the number of bombs again after a tick, however many bombs
\* go off in the tick.
C18_BombCountIsLiveBombs ==
  /\ playerRef.bombCount = Len(bombsRef)
  /\ playerRef.bombCount >= 0
  /\ LET pb == placeBomb(playerRef, bombsRef)
     IN /\ pb.player.bombCount - playerRef.bombCount = Len(pb.bombs) - Len(bombsRef)
        /\ Len(pb.bombs) - Len(bombsRef) \in {0, 1}
  /\ gameStatus = Playing =>
       /\ \A i \in 1..Len(bombsRef) :
            LET w == explodeBomb(variant, World, i)
            IN /\ w.player.bombCount = playerRef.bombCount - 1
               /\ Len(w.bombs) = Len(bombsRef) - 1
       /\ \A dt \in DtSet :
            LET w == update(variant, World, dt, noPick)
            IN w.player.bombCount = Len(w.bombs) /\ w.player.bombCount >= 0

\* Two bombs have gone off in the same tick (their explosions are of the
\* same age), and bombCount is back at 0 with no bomb left.
C18_Witness ==
  /\ log.op = "update"
  /\ Len(explosionsRef) = 2 /\ explosionsRef[1].timer = explosionsRef[2].timer
  /\ Len(bombsRef) = 0 /\ playerRef.bombCount = 0

-----------------------------------------------------------------------------
(* Enemy contact *)

\* The Euclidean distance between the two points is below 0.7 x TILE_SIZE
\* (a distance is at least its larger component; otherwise the squares are
\* compared, in tenths of a tile).
withinReach(x1, y1, x2, y2) ==
  IF Abs(x1 - x2) * 10 >= 7 * T \/ Abs(y1 - y2) * 10 >= 7 * T THEN FALSE
  ELSE ((x1 - x2) * (x1 - x2) + (y1 - y2) * (y1 - y2)) \div ((T \div 10) * (T \div 10)) < 49

\* The world of a tick when its enemy phase starts.
beforeEnemies(v, w, dt) ==
  phaseExplosions(phaseBombs(v, phaseSpace(phaseMove(v, w)), dt), dt)

\* C19: in every Playing tick, if an enemy that is still in the collection
\* when the enemy phase runs is at Euclidean distance below 0.7 x TILE_SIZE
\* from the player's position, the tick ends with the player not alive and
\* the status Lost, whatever the explosions do.
C19_ContactLoses ==
  gameStatus = Playing =>
    \A dt \in DtSet : \A pick \in Picks :
      LET before == beforeEnemies(variant, World, dt)
          w == update(variant, World, dt, pick)
      IN (\E i \in 1..Len(before.enemies) :
            withinReach(before.player.x, before.player.y,
                        before.enemies[i].x, before.enemies[i].y))
           => ~w.player.alive /\ committed(w) = Lost

\* The player walked into an enemy: the last tick ended the game with the
\* enemy within reach and no explosion on the grid.
C19_Witness ==
  /\ log.op = "update" /\ log.status0 = Playing
  /\ gameStatus = Lost /\ ~playerRef.alive
  /\ explosionsRef = <<>> /\ bombsRef = <<>>
  /\ \E i \in 1..Len(enemiesRef) :
       Abs(playerRef.x - enemiesRef[i].x) < (7 * T) \div 10 + ENEMY_SPEED * Scale
       /\ playerRef.y = enemiesRef[i].y

-----------------------------------------------------------------------------
(* Bomb input *)

\* C20: bomb placement is single-shot.  Every Playing tick ends with the
\* Space flag false, whether its placeBomb call added a bomb or not; a tick
\* adds at most one bomb, and none when the flag is not set at its start; and
\* the tick that follows, the flag not having been set again, adds no bomb.
C20_SpaceSingleShot ==
  gameStatus = Playing =>
    \A dt \in DtSet :
      LET laid == phaseSpace(phaseMove(variant, World))
          w == update(variant, World, dt, noPick)
          next == nextFrame(w)
      IN /\ ~w.inputs["Space"]
         /\ Len(laid.bombs) - Len(bombsRef) \in {0, 1}
         /\ ~inputsRef["Space"] => laid.bombs = bombsRef
         /\ firstOf(laid.bombs, Len(bombsRef)) = bombsRef
         /\ committed(w) = Playing =>
              phaseSpace(phaseMove(variant, next)).bombs = next.bombs

\* A tick that started with the Space flag set found a bomb in the player's
\* cell and added none; the flag is false after it.
C20_Witness ==
  /\ log.op = "update" /\ log.place = "occupied"
  /\ gameStatus = Playing
  /\ ~inputsRef["Space"]
  /\ Len(bombsRef) = 1

-----------------------------------------------------------------------------
(* Enemy placement *)

\* The outcome of the grid draws in which every cell draws a SoftWall: the
\* grid it gives has no Empty cell outside the safe zone.
walledLayout == Cells

\* C21: enemy placement at round start terminates on every grid, a grid
\* with no eligible Empty cell included: whatever the grid draws, the spawn
\* loop of initGame has an outcome (spawnEnemies is not empty), and on the
\* grid without an eligible cell the outcome is a collection of fewer
\* enemies than requested.
C21_SpawnTerminates ==
  gameStatus = Menu =>
    /\ \A soft \in SoftLayouts \cup RoamLayouts \cup {walledLayout} :
         spawnEnemies(variant, newMap(variant, soft)) # {}
    /\ eligibleCells(newMap(variant, walledLayout)) = {}
    /\ \A es \in spawnEnemies(variant, newMap(variant, walledLayout)) :
         Len(es) < EnemyCount(variant)

-----------------------------------------------------------------------------
(* Timers *)

\* The indices of the explosions whose timer is still positive after dt.
lasting(explosions, dt) == {i \in 1..Len(explosions) : explosions[i].timer - dt > 0}

\* C22: at the end of every Playing tick every bomb and every explosion
\* still in its collection has a positive timer.  A bomb laid in a tick has
\* its timer run by dt in that tick already; the explosions that stay are
\* those, old or created in the tick, whose timer is positive after dt, in
\* their order; an explosion whose timer reached 0 or less is gone without
\* a hit-test: a player who is in no cell of the explosions that stay, and
\* within reach of no enemy, is alive after the tick.
C22_TimersPositive ==
  /\ \A i \in 1..Len(bombsRef) : bombsRef[i].timer > 0
  /\ \A i \in 1..Len(explosionsRef) : explosionsRef[i].timer > 0
  /\ gameStatus = Playing =>
       \A dt \in DtSet :
         LET laid == phaseSpace(phaseMove(variant, World))
             gone == phaseBombs(variant, laid, dt)
             before == beforeEnemies(variant, World, dt)
             w == update(variant, World, dt, noPick)
         IN /\ \A i \in 1..Len(w.bombs) : w.bombs[i].timer > 0
            /\ \A i \in 1..Len(w.explosions) : w.explosions[i].timer > 0
            /\ (Len(laid.bombs) > Len(bombsRef) /\ BOMB_TIMER_MS - dt > 0)
                 => /\ w.bombs # <<>>
                    /\ w.bombs[Len(w.bombs)].timer = BOMB_TIMER_MS - dt
            /\ (Len(laid.bombs) > Len(bombsRef) /\ BOMB_TIMER_MS - dt <= 0)
                 => Len(gone.explosions) > Len(explosionsRef)
            /\ Len(w.explosions) = Cardinality(lasting(gone.explosions, dt))
            /\ \A i \in 1..Len(w.explosions) :
                 \E j \in lasting(gone.explosions, dt) :
                   /\ w.explosions[i] = [gone.explosions[j] EXCEPT !.timer = @ - dt]
                   /\ Cardinality({k \in lasting(gone.explosions, dt) : k <= j}) = i
            /\ (/\ ~burning(w.explosions, w.player.x, w.player.y)
                /\ ~\E i \in 1..Len(before.enemies) :
                      touches(before.player, before.enemies[i]))
                 => w.player.alive

\* A bomb went off in a long tick and its explosion was gone in the same
\* tick: the blast cleared the SoftWall two cells below the spawn cell, no
\* bomb and no explosion is left, and the player, in the bomb's cell, plays
\* on.
C22_Witness ==
  /\ log.op = "update" /\ gameStatus = Playing
  /\ bombsRef = <<>> /\ explosionsRef = <<>>
  /\ mapRef # <<>> /\ tileAt(mapRef, 3, 1) = Empty
  /\ getGridPos(playerRef.x, playerRef.y) = [c |-> 1, r |-> 1]

-----------------------------------------------------------------------------
(* Enemy steps *)

cardinals == {[x |-> 0, y |-> -1], [x |-> 0, y |-> 1], [x |-> -1, y |-> 0], [x |-> 1, y |-> 0]}

\* Every outcome of the draws of the enemy phase: no enemy, or any one of
\* them, ends the tick with any of the four directions.
allPicks(enemies) == {noPick} \cup [who : 1..Len(enemies), dir : 1..4]

\* No bomb, and for each enemy a bomb in the cell one tile ahead of it if
\* that cell is Empty: bombs the player can have laid there.
bombsAhead(map, enemies) ==
  {<<>>} \cup
  {<<[x |-> c * T + T \div 2, y |-> r * T + T \div 2, timer |-> BOMB_TIMER_MS,
      range |-> BLAST_RADIUS, ownerId |-> "player"]>> :
     <<r, c>> \in {cell \in {<<(enemies[i].y \div T) + enemies[i].direction.y,
                             (enemies[i].x \div T) + enemies[i].direction.x>> :
                             i \in 1..Len(enemies)} :
                    inGrid(cell[1], cell[2]) /\ tileAt(map, cell[1], cell[2]) = Empty}}

\* What C23 says of the enemy phase run on the world `before` with the
\* bombs `bombs` and the draws `pick`.
stepsOrStays(before, bombs, pick) ==
  LET w == phaseEnemies([before EXCEPT !.bombs = bombs], pick)
  IN /\ Len(w.enemies) = Len(before.enemies)
     /\ \A i \in 1..Len(before.enemies) :
          LET e == before.enemies[i]
              tx == e.x + e.direction.x * e.speed
              ty == e.y + e.direction.y * e.speed
              free == clearAt(before.map, e, tx, ty) /\ onlyOwnBombs(bombs, e, tx, ty)
          IN /\ w.enemies[i].direction \in cardinals
             /\ [w.enemies[i] EXCEPT !.x = e.x, !.y = e.y, !.direction = e.direction] = e
             /\ free => (w.enemies[i].x = tx /\ w.enemies[i].y = ty)
             /\ (~free) => (w.enemies[i].x = e.x /\ w.enemies[i].y = e.y)
             /\ (i # pick.who /\ free) => w.enemies[i].direction = e.direction

\* C23: for every enemy in every tick: if the step along its direction is
\* blocked (its rectangle there would cover a cell that is not an in-bounds
\* Empty one, or overlap a bomb it does not overlap where it is) its
\* position is unchanged and only its direction may change; otherwise it
\* advances by its speed along that direction, whatever direction it draws;
\* and in every reachable state its direction is one of (0,-1), (0,1),
\* (-1,0), (1,0).
C23_EnemyStepsOrStays ==
  /\ \A i \in 1..Len(enemiesRef) : enemiesRef[i].direction \in cardinals
  /\ gameStatus = Playing =>
       /\ \A dt \in DtSet :
            LET before == beforeEnemies(variant, World, dt)
            IN stepsOrStays(before, before.bombs, noPick)
       /\ LET before == beforeEnemies(variant, World, 0)
          IN /\ \A pick \in allPicks(before.enemies) :
                  stepsOrStays(before, before.bombs, pick)
             /\ \A extra \in bombsAhead(before.map, before.enemies) :
                  stepsOrStays(before, before.bombs \o extra, noPick)

\* An enemy came up against the SoftWall of cell (1,6), stayed where it was
\* and turned: it stands with its rectangle one step short of the wall and
\* no longer heads right, and a bomb laid in the cell ahead of it would
\* block it as well.
C23_Witness ==
  /\ log.op = "update" /\ gameStatus = Playing
  /\ \E i \in 1..Len(enemiesRef) :
       /\ enemiesRef[i].direction # [x |-> 1, y |-> 0]
       /\ enemiesRef[i].y = T + T \div 2
       /\ ~clearAt(mapRef, enemiesRef[i], enemiesRef[i].x + enemiesRef[i].speed, enemiesRef[i].y)
       /\ Cardinality(bombsAhead(mapRef, enemiesRef)) > 1

-----------------------------------------------------------------------------
(* Corner sliding *)

\* The centreline of the lane `coord` lies in.
laneCentre(coord) == (coord \div T) * T + T \div 2

\* What C24 says of a slide that took the coordinate `across` of the lane to
\* `across1` while the coordinate `along` of the blocked axis became
\* `along1`.
slidToCentre(speed, along, along1, across, across1) ==
  /\ along1 = along
  /\ Abs(across1 - across) = speed
  /\ Abs(laneOffset(across)) < SNAP_THRESHOLD * Scale
  /\ Abs(across1 - laneCentre(across)) < Abs(across - laneCentre(across))
  /\ across1 \div T = across \div T

\* C24: corner sliding only moves the player toward the lane centreline:
\* whenever the resolution of a blocked axis move displaces the player, the
\* displacement is on the other axis only (the blocked-axis coordinate is
\* unchanged, and so is everything else of the player), its magnitude is
\* the player's speed, the offset from the centreline was below 20 px
\* either way, and the player ends strictly closer to the centreline of the
\* cell it is in, which it does not leave.
C24_SlideTowardCentre ==
  gameStatus = Playing =>
    \A d \in {desiredMove(snap, playerRef.speed) : snap \in arrowSnapshots} :
      LET p0 == playerRef
          p1 == moveX(variant, mapRef, bombsRef, p0, d.dx)
          p2 == moveY(variant, mapRef, bombsRef, p1, d.dy)
      IN /\ (d.dx # 0 /\ blockedAt(mapRef, bombsRef, p0, p0.x + d.dx, p0.y) /\ p1 # p0)
              => /\ slidToCentre(p0.speed, p0.x, p1.x, p0.y, p1.y)
                 /\ p1 = [p0 EXCEPT !.y = p1.y]
         /\ (d.dy # 0 /\ blockedAt(mapRef, bombsRef, p1, p1.x, p1.y + d.dy) /\ p2 # p1)
              => /\ slidToCentre(p1.speed, p1.y, p2.y, p1.x, p2.x)
                 /\ p2 = [p1 EXCEPT !.x = p2.x]

\* Frames have run with ArrowDown and ArrowRight set and the player, below
\* the centreline of its row, has come up against the pillar of cell (2,2):
\* the X move of the frame under way is blocked and its resolution takes
\* the player up by its speed, x unchanged.
C24_Witness ==
  /\ log.op = "update" /\ gameStatus = Playing
  /\ inputsRef = [k \in Keys |-> k \in {"ArrowDown", "ArrowRight"}]
  /\ laneOffset(playerRef.y) > 0
  /\ tileAt(mapRef, 2, 2) = HardWall /\ getGridPos(playerRef.x, playerRef.y) = [c |-> 1, r |-> 1]
  /\ LET d == desiredMove(inputsRef, playerRef.speed)
     IN /\ blockedAt(mapRef, bombsRef, playerRef, playerRef.x + d.dx, playerRef.y)
        /\ moveX(variant, mapRef, bombsRef, playerRef, d.dx)
             = [playerRef EXCEPT !.y = @ - playerRef.speed]

-----------------------------------------------------------------------------
(* Enemies and explosions *)

\* An enemy as it is but for what its step may change.
sameEnemy(e, f) == [e EXCEPT !.x = f.x, !.y = f.y, !.direction = f.direction] = f

\* C25: in every Playing tick each enemy whose grid cell is a particle cell
\* of an explosion that is still there after the explosions' timers ran is
\* removed from the collection, once, and no other enemy is: the enemies
\* after the tick are, in their order, those that were in no such cell,
\* each changed by its step only.  The collection never grows in a round:
\* it is never longer than what initGame requests.
C25_BurntEnemiesRemoved ==
  /\ Len(enemiesRef) <= EnemyCount(variant)
  /\ gameStatus = Playing =>
       \A dt \in DtSet : \A pick \in Picks :
         LET w == update(variant, World, dt, pick)
             spared == {i \in 1..Len(enemiesRef) :
                          ~burning(w.explosions, enemiesRef[i].x, enemiesRef[i].y)}
         IN /\ Len(w.enemies) = Cardinality(spared)
            /\ Len(w.enemies) <= Len(enemiesRef)
            /\ \A i \in spared :
                 sameEnemy(w.enemies[Cardinality({k \in spared : k <= i})], enemiesRef[i])

\* A frame of the first definition, which starts with four enemies in one
\* cell, ended with an explosion over that cell still there and no enemy
\* left.
C25_Witness ==
  /\ variant = 1 /\ log.op = "update" /\ log.status0 = Playing
  /\ Len(enemiesRef) = 0
  /\ \E i \in 1..Len(explosionsRef) :
       /\ explosionsRef[i].timer > 0
       /\ \E cell \in SpawnCells : cell \in particleCells(explosionsRef[i])

-----------------------------------------------------------------------------
(* Entities and walls *)

\* The rectangles of the player and of every enemy cover in-bounds Empty
\* cells only.
allClear(map, player, enemies) ==
  /\ clearAt(map, player, player.x, player.y)
  /\ \A i \in 1..Len(enemies) : clearAt(map, enemies[i], enemies[i].x, enemies[i].y)

\* C26: in every reachable state of a round the hitbox rectangle of the
\* player and of every enemy covers only in-bounds Empty tiles, and a tick
\* leaves it so whatever the direction flags, the elapsed time and the
\* enemies' draws: no move, corner slide, bomb placement or detonation
\* leaves an entity overlapping a SoftWall, a HardWall or the outside of
\* the grid.
C26_EntitiesOnEmptyTiles ==
  gameStatus # Menu =>
    /\ allClear(mapRef, playerRef, enemiesRef)
    /\ gameStatus = Playing =>
         /\ \A d \in {desiredMove(snap, playerRef.speed) : snap \in arrowSnapshots} :
              LET p == movedBy(variant, mapRef, bombsRef, playerRef, d)
              IN clearAt(mapRef, p, p.x, p.y)
         /\ \A dt \in DtSet :
              LET w == update(variant, World, dt, noPick)
              IN allClear(w.map, w.player, w.enemies)
         /\ \A pick \in allPicks(enemiesRef) :
              allClear(mapRef, playerRef, movedEnemies(World, pick).enemies)

\* Frames have run in which the player, holding two direction flags, left
\* both centrelines of its cell and came up against the pillar of cell
\* (2,2), while an enemy stands one step short of a wall.
C26_Witness ==
  /\ log.op = "update" /\ gameStatus = Playing
  /\ laneOffset(playerRef.x) # 0 /\ laneOffset(playerRef.y) # 0
  /\ ~clearAt(mapRef, playerRef, playerRef.x + playerRef.speed, playerRef.y)
  /\ \E i \in 1..Len(enemiesRef) :
       ~clearAt(mapRef, enemiesRef[i],
                enemiesRef[i].x + enemiesRef[i].direction.x * enemiesRef[i].speed,
                enemiesRef[i].y + enemiesRef[i].direction.y * enemiesRef[i].speed)

-----------------------------------------------------------------------------
(* Status and alive flag *)

\* C27: the round status and the player's alive flag agree at the end of a
\* tick: player.alive is false if and only if the status is Lost; the
\* status is never Won or Playing while the player is not alive, even when
\* the player's death and the removal of the last enemy happen in the same
\* tick.
C27_AliveIffNotLost ==
  /\ ~playerRef.alive <=> gameStatus = Lost
  /\ gameStatus = Playing =>
       \A dt \in DtSet : \A pick \in Picks :
         LET w == update(variant, World, dt, pick)
         IN ~w.player.alive <=> committed(w) = Lost

-----------------------------------------------------------------------------
(* Blast of the detonating tick *)

\* The explosions the bombs phase has added to those of `old`.
created(old, now) == SubSeq(now, Len(old) + 1, Len(now))

\* C28: an explosion is hit-tested in the very tick its bomb detonates,
\* for every elapsed time: if the player's grid cell is a particle cell of
\* an explosion created in a tick, the player is not alive after that tick,
\* and an enemy in such a cell is not in the collection after it.
C28_BlastHitsAtOnce ==
  gameStatus = Playing =>
    \A dt \in DtSet :
      LET laid == phaseSpace(phaseMove(variant, World))
          gone == phaseBombs(variant, laid, dt)
          new == created(laid.explosions, gone.explosions)
          w == update(variant, World, dt, noPick)
      IN /\ burning(new, gone.player.x, gone.player.y) => ~w.player.alive
         /\ Len(w.enemies)
              <= Cardinality({i \in 1..Len(gone.enemies) :
                                ~burning(new, gone.enemies[i].x, gone.enemies[i].y)})

-----------------------------------------------------------------------------
(* Enemies at the start of a round *)

\* The player's spawn point.
spawnPoint == [x |-> (3 * T) \div 2, y |-> (3 * T) \div 2]

\* C29: immediately after every start or restart every spawned enemy is at
\* the pixel centre of an in-bounds Empty cell with row > 4 or column > 4,
\* heading (1,0); no cell the spawn loop can pick on the grid just built
\* puts an enemy within 0.7 x TILE_SIZE of the player's spawn point, so no
\* enemy is within reach of the player, and the first tick, whatever the
\* direction flags and the elapsed time, does not end the round as Lost.
C29_SpawnedAwayFromPlayer ==
  log.op = "initGame" =>
    /\ playerRef.x = spawnPoint.x /\ playerRef.y = spawnPoint.y
    /\ \A i \in 1..Len(enemiesRef) :
         LET e == enemiesRef[i]
             pos == getGridPos(e.x, e.y)
         IN /\ inBounds(pos) /\ tileAt(mapRef, pos.r, pos.c) = Empty
            /\ (pos.r > 4 \/ pos.c > 4)
            /\ e.x = pos.c * T + T \div 2 /\ e.y = pos.r * T + T \div 2
            /\ e.direction = [x |-> 1, y |-> 0]
            /\ ~withinReach(playerRef.x, playerRef.y, e.x, e.y)
    /\ \A cell \in eligibleCells(mapRef) :
         /\ (cell[1] > 4 \/ cell[2] > 4)
         /\ ~withinReach(spawnPoint.x, spawnPoint.y, newEnemy(cell).x, newEnemy(cell).y)
    /\ \A snap \in arrowSnapshots : \A dt \in DtSet :
         LET w == update(variant, [World EXCEPT !.inputs = snap], dt, noPick)
         IN w.player.alive /\ committed(w) # Lost

\* initGame built a grid with SoftWalls in some of the drawn cells, one of
\* them the cell (5,1) at the edge of the region where enemies may spawn,
\* and spawned enemies on it.
C29_Witness ==
  /\ log.op = "initGame" /\ gameStatus = Playing
  /\ Len(enemiesRef) > 0
  /\ tileAt(mapRef, 5, 1) = SoftWall /\ tileAt(mapRef, 1, 7) = Empty

====
